---- MODULE Spec2Model ----
(***************************************************************************)
(* A model of the bybit-mcp server: the trading gate (trade.py:33), the    *)
(* endpoint adapters (market.py, trade.py, position.py) and the tool       *)
(* dispatcher (main.py:1541-1701).  The exchange HTTP client               *)
(* (pybit.unified_trading.HTTP) is a black box: every outbound call is     *)
(* answered by a response drawn from ClientResponses.                      *)
(***************************************************************************)
EXTENDS Integers, Sequences, FiniteSets, TLC

VARIABLES
    env,                    \* the configuration value BYBIT_TRADING_ENABLED
    envTestnet,             \* the configuration value BYBIT_TESTNET
    bybit_session,          \* the client session of each module loaded so far
    inflight,               \* the invocations whose outbound call is on the wire
    TRADING_ENABLED,        \* trade.TRADING_ENABLED            (trade.py:33)
    position_TRADING_ENABLED, \* position.TRADING_ENABLED       (position.py:19)
    main_TRADING_ENABLED,   \* main.TRADING_ENABLED             (main.py:55)
    netCalls,               \* outbound client calls made since startup
    pc,                     \* "idle": waiting for a request; "done": a result is ready;
                            \* during startup, the module loaded last
    last                    \* the request handled last, with everything it did

vars == <<env, envTestnet, bybit_session, inflight,
          TRADING_ENABLED, position_TRADING_ENABLED, main_TRADING_ENABLED,
          netCalls, pc, last>>

gates == <<TRADING_ENABLED, position_TRADING_ENABLED, main_TRADING_ENABLED>>

sessions == <<envTestnet, bybit_session>>

-----------------------------------------------------------------------------
(* Bounds                                                                  *)

\* at most this many optional parameters are supplied in one invocation
MaxOpt == 2
\* at most this many outbound client calls are made in one run
MaxCalls == 2
\* at most this many items are in the list of a batch response
MaxItems == 3

-----------------------------------------------------------------------------
(* Python values.  A value is its type name and its repr, so that the int  *)
(* 1 and the str "1" differ and str() is a real conversion.                *)

NoneV == [type |-> "NoneType", repr |-> "None"]
StrV(s) == [type |-> "str", repr |-> s]
IntV(s) == [type |-> "int", repr |-> s]
BoolV(b) == [type |-> "bool", repr |-> IF b THEN "True" ELSE "False"]
ListV(s) == [type |-> "list", repr |-> s]

\* bool(v)
Truthy(v) ==
    /\ v # NoneV
    /\ v # StrV("")
    /\ v # IntV("0")
    /\ v # BoolV(FALSE)
    /\ v # ListV("[]")

\* str(v)
str(v) == StrV(v.repr)

\* A string whose characters matter is the sequence of its characters.
UpperCase == <<"A", "B", "C", "D", "E", "F", "G", "H", "I", "J", "K", "L", "M",
               "N", "O", "P", "Q", "R", "S", "T", "U", "V", "W", "X", "Y", "Z">>
LowerCase == <<"a", "b", "c", "d", "e", "f", "g", "h", "i", "j", "k", "l", "m",
               "n", "o", "p", "q", "r", "s", "t", "u", "v", "w", "x", "y", "z">>

LowerChar(c) ==
    IF \E i \in 1..Len(UpperCase) : UpperCase[i] = c
    THEN LowerCase[CHOOSE i \in 1..Len(UpperCase) : UpperCase[i] = c]
    ELSE c

\* s.lower()
lower(s) == [i \in 1..Len(s) |-> LowerChar(s[i])]

\* An empty mapping, {}.
EmptyDict == [k \in {} |-> NoneV]

\* the keys of a sequence of parameter descriptions
Names(sig) == {sig[i].name : i \in 1..Len(sig)}

-----------------------------------------------------------------------------
(* Adapter signatures.  One entry per parameter, in source order:          *)
(*   req     the parameter has no default                                  *)
(*   default the default value                                             *)
(*   prune   "always": always forwarded; "notNone": forwarded when          *)
(*           `value is not None`; "truthy": forwarded when `if value:`     *)
(*   conv    "str" when the adapter forwards str(value)                    *)
(*   out     the keyword the client call receives                          *)

Req(n, t) == [name |-> n, type |-> t, req |-> TRUE, default |-> NoneV,
              prune |-> "always", conv |-> "id", out |-> n]
Opt(n, t) == [name |-> n, type |-> t, req |-> FALSE, default |-> NoneV,
              prune |-> "notNone", conv |-> "id", out |-> n]
OptT(n, t) == [name |-> n, type |-> t, req |-> FALSE, default |-> NoneV,
               prune |-> "truthy", conv |-> "id", out |-> n]
Def(n, t, d) == [name |-> n, type |-> t, req |-> FALSE, default |-> d,
                 prune |-> "always", conv |-> "id", out |-> n]
AsStr(p) == [p EXCEPT !.conv = "str"]
As(p, o) == [p EXCEPT !.out = o]

KlineSig == << Req("symbol", "str"), Req("interval", "str"),
               Def("category", "str", StrV("linear")), Def("limit", "int", IntV("200")) >>

MarketSignature(tool) ==
    CASE tool = "get_server_time" -> << >>
      [] tool = "get_tickers" ->
            << OptT("symbol", "str"), Def("category", "str", StrV("linear")),
               OptT("baseCoin", "str"), AsStr(OptT("limit", "int")), OptT("cursor", "str") >>
      [] tool = "get_order_book" ->
            << Req("symbol", "str"), Def("category", "str", StrV("linear")),
               Def("limit", "int", IntV("50")), OptT("baseCoin", "str"), OptT("cursor", "str") >>
      [] tool = "get_recent_trades" ->
            << Req("symbol", "str"), Def("category", "str", StrV("linear")),
               OptT("baseCoin", "str"), OptT("optionType", "str"),
               Def("limit", "int", IntV("50")), OptT("cursor", "str") >>
      [] tool \in {"get_kline", "get_mark_price_kline", "get_index_price_kline",
                   "get_premium_index_price_kline"} -> KlineSig
      [] tool = "get_instruments_info" ->
            << Def("category", "str", StrV("linear")), OptT("symbol", "str") >>
      [] tool = "get_funding_rate_history" ->
            << Req("symbol", "str"), Def("category", "str", StrV("linear")),
               Def("limit", "int", IntV("200")) >>
      [] tool = "get_open_interest" ->
            << Req("symbol", "str"), Def("category", "str", StrV("linear")),
               As(Def("interval", "str", StrV("5min")), "intervalTime"),
               Def("limit", "int", IntV("200")) >>
      [] tool = "get_insurance" ->
            << Def("category", "str", StrV("linear")), OptT("baseCoin", "str"),
               OptT("quoteCoin", "str"), OptT("startTime", "str"), OptT("endTime", "str") >>
      [] tool = "get_risk_limit" ->
            << Req("symbol", "str"), Def("category", "str", StrV("linear")) >>
      [] tool = "get_long_short_ratio" ->
            << Req("symbol", "str"), Def("category", "str", StrV("linear")),
               As(Def("interval", "str", StrV("5min")), "period"),
               Def("limit", "int", IntV("200")) >>

TradeSignature(tool) ==
    CASE tool = "place_order" ->
            << Req("category", "str"), Req("symbol", "str"), Req("side", "str"),
               Req("orderType", "str"), Req("qty", "str"),
               Opt("price", "str"), Opt("isLeverage", "int"), Opt("orderLinkId", "str"),
               Opt("timeInForce", "str"), Opt("positionIdx", "int"), Opt("reduceOnly", "bool"),
               Opt("triggerBy", "str"), Opt("triggerPrice", "str"),
               Opt("triggerDirection", "int"), Opt("takeProfit", "str"),
               Opt("stopLoss", "str"), Opt("tpTriggerBy", "str"), Opt("slTriggerBy", "str"),
               Opt("marketUnit", "str"), Opt("smpType", "str") >>
      [] tool = "amend_order" ->
            << Req("category", "str"), Req("symbol", "str"),
               Opt("orderId", "str"), Opt("orderLinkId", "str"), Opt("orderIv", "str"),
               Opt("triggerPrice", "str"), Opt("qty", "str"), Opt("price", "str"),
               Opt("tpslMode", "str"), Opt("takeProfit", "str"), Opt("stopLoss", "str"),
               Opt("tpTriggerBy", "str"), Opt("slTriggerBy", "str"), Opt("triggerBy", "str"),
               Opt("tpLimitPrice", "str"), Opt("slLimitPrice", "str") >>
      [] tool = "cancel_order" ->
            << Req("category", "str"), Req("symbol", "str"),
               OptT("orderId", "str"), OptT("orderLinkId", "str"), OptT("orderFilter", "str") >>
      [] tool = "get_open_closed_orders" ->
            << Req("category", "str"),
               Opt("symbol", "str"), Opt("baseCoin", "str"), Opt("settleCoin", "str"),
               Opt("orderId", "str"), Opt("orderLinkId", "str"), Opt("openOnly", "int"),
               Opt("orderFilter", "str"), Opt("limit", "int"), Opt("cursor", "str") >>
      [] tool = "cancel_all_orders" ->
            << Req("category", "str"),
               Opt("symbol", "str"), Opt("baseCoin", "str"), Opt("settleCoin", "str"),
               Opt("orderFilter", "str"), Opt("stopOrderType", "str") >>
      [] tool = "get_order_history" ->
            << Req("category", "str"),
               Opt("symbol", "str"), Opt("baseCoin", "str"), Opt("settleCoin", "str"),
               Opt("orderId", "str"), Opt("orderLinkId", "str"), Opt("orderFilter", "str"),
               Opt("orderStatus", "str"), Opt("startTime", "int"), Opt("endTime", "int"),
               Opt("limit", "int"), Opt("cursor", "str") >>
      [] tool = "get_trade_history" ->
            << Req("category", "str"),
               Opt("symbol", "str"), Opt("orderId", "str"), Opt("orderLinkId", "str"),
               Opt("baseCoin", "str"), Opt("startTime", "int"), Opt("endTime", "int"),
               Opt("execType", "str"), Opt("limit", "int"), Opt("cursor", "str") >>
      [] tool \in {"batch_place_order", "batch_amend_order", "batch_cancel_order"} ->
            << Req("category", "str"), Req("request", "list") >>
      [] tool = "get_wallet_balance" ->
            << Req("accountType", "str"), OptT("coin", "str") >>
      [] tool = "get_single_coin_balance" ->
            << Req("accountType", "str"), Req("coin", "str"),
               Opt("memberId", "str"), Opt("toAccountType", "str"),
               Opt("toMemberId", "str"), Opt("withBonus", "int") >>
      [] tool = "get_account_info" -> << >>
      [] tool = "place_trigger_order" ->
            << Req("category", "str"), Req("symbol", "str"), Req("side", "str"),
               Req("orderType", "str"), Req("qty", "str"), Req("triggerPrice", "str"),
               Req("triggerDirection", "int"),
               Opt("triggerBy", "str"), Opt("price", "str"), Opt("orderFilter", "str"),
               Opt("timeInForce", "str"), Opt("reduceOnly", "bool"),
               Opt("closeOnTrigger", "bool"), Opt("positionIdx", "int"),
               Opt("orderLinkId", "str") >>

PositionSignature(tool) ==
    CASE tool = "get_position_info" ->
            << Req("category", "str"), Req("settleCoin", "str"),
               OptT("symbol", "str"), OptT("baseCoin", "str"),
               AsStr(Opt("limit", "int")), OptT("cursor", "str") >>
      [] tool = "set_leverage" ->
            << Req("category", "str"), Req("symbol", "str"),
               Req("buyLeverage", "str"), Req("sellLeverage", "str") >>
      [] tool = "switch_cross_isolated_margin" ->
            << Req("category", "str"), Req("symbol", "str"), Req("tradeMode", "int"),
               Req("buyLeverage", "str"), Req("sellLeverage", "str") >>
      [] tool = "switch_position_mode" ->
            << Req("category", "str"), OptT("symbol", "str"), OptT("coin", "str"),
               Def("mode", "int", IntV("0")) >>
      [] tool = "set_trading_stop" ->
            << Req("category", "str"), Req("symbol", "str"), Req("tpslMode", "str"),
               Req("positionIdx", "int"),
               Opt("takeProfit", "str"), Opt("stopLoss", "str"), Opt("trailingStop", "str"),
               Opt("tpTriggerBy", "str"), Opt("slTriggerBy", "str"), Opt("activePrice", "str"),
               Opt("tpSize", "str"), Opt("slSize", "str"), Opt("tpLimitPrice", "str"),
               Opt("slLimitPrice", "str"), Opt("tpOrderType", "str"), Opt("slOrderType", "str") >>
      [] tool = "set_auto_add_margin" ->
            << Req("category", "str"), Req("symbol", "str"), Req("autoAddMargin", "int"),
               AsStr(Opt("positionIdx", "int")) >>
      [] tool = "modify_position_margin" ->
            << Req("category", "str"), Req("symbol", "str"), Req("margin", "str"),
               AsStr(Opt("positionIdx", "int")) >>
      [] tool = "get_closed_pnl" ->
            << Req("category", "str"), Opt("symbol", "str"),
               AsStr(Opt("startTime", "int")), AsStr(Opt("endTime", "int")),
               AsStr(Opt("limit", "int")), Opt("cursor", "str") >>

-----------------------------------------------------------------------------
(* The adapters, by module, and the ones that consult the gate.            *)

MarketTools == {"get_server_time", "get_tickers", "get_order_book", "get_recent_trades",
                "get_kline", "get_mark_price_kline", "get_index_price_kline",
                "get_premium_index_price_kline", "get_instruments_info",
                "get_funding_rate_history", "get_open_interest", "get_insurance",
                "get_risk_limit", "get_long_short_ratio"}

TradeTools == {"place_order", "amend_order", "cancel_order", "get_open_closed_orders",
               "cancel_all_orders", "get_order_history", "get_trade_history",
               "batch_place_order", "batch_amend_order", "batch_cancel_order",
               "get_wallet_balance", "get_single_coin_balance", "get_account_info",
               "place_trigger_order"}

PositionTools == {"get_position_info", "set_leverage", "switch_cross_isolated_margin",
                  "switch_position_mode", "set_trading_stop", "set_auto_add_margin",
                  "modify_position_margin", "get_closed_pnl"}

Tools == MarketTools \cup TradeTools \cup PositionTools

Signature(tool) ==
    IF tool \in MarketTools THEN MarketSignature(tool)
    ELSE IF tool \in TradeTools THEN TradeSignature(tool)
    ELSE PositionSignature(tool)

\* the description of parameter n in a signature
ParamOf(sig, n) == sig[CHOOSE i \in 1..Len(sig) : sig[i].name = n]

-----------------------------------------------------------------------------
(* Outcomes.  A Python call either returns a value or raises.              *)

Return(v) == [kind |-> "return", value |-> v]
Raise(t, m) == [kind |-> "raise", exc |-> [type |-> t, msg |-> m]]

\* The exception classes of this model; all derive from Exception.
ExceptionTypes == {"TypeError", "ValueError", "KeyError", "AttributeError",
                   "ValidationError", "NetworkError"}

-----------------------------------------------------------------------------
(* Calling an adapter with the arguments spread as keywords: Python binds  *)
(* them to the signature before the body runs.                             *)

RequiredNames(sig) == {sig[i].name : i \in {j \in 1..Len(sig) : sig[j].req}}

BindFault(sig, arguments) ==
    IF ~(DOMAIN arguments \subseteq Names(sig))
    THEN "got an unexpected keyword argument"
    ELSE IF ~(RequiredNames(sig) \subseteq DOMAIN arguments)
    THEN "missing required positional argument"
    ELSE "none"

Bind(sig, arguments) ==
    [n \in Names(sig) |->
        IF n \in DOMAIN arguments THEN arguments[n] ELSE ParamOf(sig, n).default]

-----------------------------------------------------------------------------
(* Response Models (pydantic).  A schema lists the required and optional   *)
(* fields of a model, the fields that hold a nested model (sub) and the    *)
(* fields that hold a list of models (list).                               *)

Sch(r, o, s, l) == [req |-> r, opt |-> o, sub |-> s, list |-> l]
NoFields == [k \in {} |-> ""]

\* BaseApiResponse with `result: <model>`
Envelope(resultModel) ==
    Sch({"retCode", "retMsg", "result"}, {}, [result |-> resultModel], NoFields)

OrderItemFields == {"orderId", "orderLinkId"}
BatchItemFields == OrderItemFields \cup {"category", "symbol"}

CoinBalanceFields ==
    {"coin", "equity", "usdValue", "walletBalance", "borrowAmount", "availableToBorrow",
     "availableToWithdraw", "accruedInterest", "totalOrderIM", "totalPositionIM",
     "totalPositionMM", "unrealisedPnl", "cumRealisedPnl", "bonus", "collateralSwitch",
     "marginCollateral", "locked", "spotHedgingQty"}

TradeSchema(m) ==
    CASE m = "OrderItemResult" -> Sch(OrderItemFields, {}, NoFields, NoFields)
      [] m \in {"PlaceOrderResponse", "AmendOrderResponse", "CancelOrderResponse"} ->
            Envelope("OrderItemResult")
      [] m = "Order" ->
            Sch({"orderId", "orderLinkId", "symbol", "price", "qty", "side", "orderStatus",
                 "orderType"},
                {"blockTradeId", "isLeverage", "positionIdx", "createType", "cancelType",
                 "rejectReason", "avgPrice", "leavesQty", "leavesValue", "cumExecQty",
                 "cumExecValue", "cumExecFee", "timeInForce", "stopOrderType", "orderIv",
                 "triggerPrice", "takeProfit", "stopLoss", "createdTime", "updatedTime",
                 "triggerDirection", "triggerBy", "reduceOnly", "closeOnTrigger", "smpType",
                 "smpGroup", "smpOrderId", "tpslMode", "tpLimitPrice", "slLimitPrice",
                 "placeType"},
                NoFields, NoFields)
      [] m = "PaginatedOrderListResult" ->
            Sch({"category", "nextPageCursor", "list"}, {}, NoFields, [list |-> "Order"])
      [] m \in {"OpenClosedOrdersResponse", "OrderHistoryResponse"} ->
            Envelope("PaginatedOrderListResult")
      [] m = "CancelAllResultItem" -> Sch(OrderItemFields, {"success"}, NoFields, NoFields)
      [] m = "CancelAllOrdersResult" ->
            Sch({"list"}, {}, NoFields, [list |-> "CancelAllResultItem"])
      [] m = "CancelAllOrdersResponse" -> Envelope("CancelAllOrdersResult")
      [] m = "TradeExecutionItem" ->
            Sch({"symbol", "orderId", "side", "orderPrice", "orderQty", "orderType",
                 "execFee", "execId", "execPrice", "execQty", "execTime", "isMaker"},
                {"orderLinkId", "leavesQty", "createType", "stopOrderType", "execType",
                 "execValue", "feeCurrency", "feeRate", "tradeIv", "markIv", "markPrice",
                 "indexPrice", "underlyingPrice", "blockTradeId", "closedSize", "seq",
                 "extraFees"},
                NoFields, NoFields)
      [] m = "TradeHistoryResult" ->
            Sch({"category", "list"}, {"nextPageCursor"}, NoFields,
                [list |-> "TradeExecutionItem"])
      [] m = "TradeHistoryResponse" -> Envelope("TradeHistoryResult")
      [] m = "BatchPlaceOrderItem" ->
            Sch(BatchItemFields, {"code", "msg", "createAt"}, NoFields, NoFields)
      [] m \in {"BatchAmendOrderItemResult", "BatchCancelOrderItemResult"} ->
            Sch(BatchItemFields, {"code", "msg"}, NoFields, NoFields)
      [] m = "BatchPlaceOrderResult" ->
            Sch({"list"}, {}, NoFields, [list |-> "BatchPlaceOrderItem"])
      [] m = "BatchAmendOrderResult" ->
            Sch({"list"}, {}, NoFields, [list |-> "BatchAmendOrderItemResult"])
      [] m = "BatchCancelOrderResult" ->
            Sch({"list"}, {}, NoFields, [list |-> "BatchCancelOrderItemResult"])
      [] m = "BatchPlaceOrderResponse" -> Envelope("BatchPlaceOrderResult")
      [] m = "BatchAmendOrderResponse" -> Envelope("BatchAmendOrderResult")
      [] m = "BatchCancelOrderResponse" -> Envelope("BatchCancelOrderResult")
      [] m = "CoinBalance" -> Sch(CoinBalanceFields, {}, NoFields, NoFields)
      [] m = "WalletBalance" ->
            Sch({"accountType", "totalEquity", "totalWalletBalance", "totalMarginBalance",
                 "totalAvailableBalance", "totalPerpUPL", "totalInitialMargin",
                 "totalMaintenanceMargin", "accountIMRate", "accountMMRate", "accountLTV",
                 "coin"},
                {}, NoFields, [coin |-> "CoinBalance"])
      [] m = "WalletBalanceResult" ->
            Sch({"list"}, {}, NoFields, [list |-> "WalletBalance"])
      [] m = "WalletBalanceResponse" -> Envelope("WalletBalanceResult")
      [] m = "SingleCoinBalanceResult" ->
            Sch({"accountType", "bizType", "accountId", "memberId", "balance"}, {},
                [balance |-> "CoinBalance"], NoFields)
      [] m = "SingleCoinBalanceResponse" -> Envelope("SingleCoinBalanceResult")
      [] m = "AccountInfo" ->
            Sch({"unifiedMarginStatus", "marginMode", "dcpStatus", "timeWindow", "smpGroup",
                 "isMasterTrader", "spotHedgingStatus", "updatedTime"},
                {}, NoFields, NoFields)
      [] m = "AccountInfoResponse" -> Envelope("AccountInfo")

TradeModels ==
    {"OrderItemResult", "PlaceOrderResponse", "AmendOrderResponse", "CancelOrderResponse",
     "Order", "PaginatedOrderListResult", "OpenClosedOrdersResponse", "OrderHistoryResponse",
     "CancelAllResultItem", "CancelAllOrdersResult", "CancelAllOrdersResponse",
     "TradeExecutionItem", "TradeHistoryResult", "TradeHistoryResponse",
     "BatchPlaceOrderItem", "BatchAmendOrderItemResult", "BatchCancelOrderItemResult",
     "BatchPlaceOrderResult", "BatchAmendOrderResult", "BatchCancelOrderResult",
     "BatchPlaceOrderResponse", "BatchAmendOrderResponse", "BatchCancelOrderResponse",
     "CoinBalance", "WalletBalance", "WalletBalanceResult", "WalletBalanceResponse",
     "SingleCoinBalanceResult", "SingleCoinBalanceResponse", "AccountInfo",
     "AccountInfoResponse"}

EmptyResultModels ==
    {"SetLeverageResult", "SwitchMarginModeResult", "SwitchPositionModeResult",
     "SetTradingStopResult", "SetAutoAddMarginResult"}

PositionSchema(m) ==
    CASE m = "PositionInfoItem" ->
            Sch({"positionIdx", "riskId", "riskLimitValue", "symbol", "side", "size",
                 "avgPrice", "positionValue", "tradeMode", "autoAddMargin", "positionStatus",
                 "leverage", "markPrice", "liqPrice", "bustPrice", "positionIM", "positionMM",
                 "positionBalance", "takeProfit", "stopLoss", "trailingStop",
                 "sessionAvgPrice", "delta", "gamma", "vega", "theta", "unrealisedPnl",
                 "curRealisedPnl", "cumRealisedPnl", "adlRankIndicator", "createdTime",
                 "updatedTime"},
                {"tpslMode", "tpLimitPrice", "slLimitPrice", "tpTriggerBy", "slTriggerBy",
                 "seq", "isReduceOnly", "mmrSysUpdatedTime", "leverageSysUpdatedTime"},
                NoFields, NoFields)
      [] m = "PositionInfoResult" ->
            Sch({"category", "nextPageCursor", "list"}, {}, NoFields,
                [list |-> "PositionInfoItem"])
      [] m = "GetPositionInfoResponse" -> Envelope("PositionInfoResult")
      [] m \in EmptyResultModels -> Sch({}, {}, NoFields, NoFields)
      [] m = "SetLeverageResponse" -> Envelope("SetLeverageResult")
      [] m = "SwitchMarginModeResponse" -> Envelope("SwitchMarginModeResult")
      [] m = "SwitchPositionModeResponse" -> Envelope("SwitchPositionModeResult")
      [] m = "SetTradingStopResponse" -> Envelope("SetTradingStopResult")
      [] m = "SetAutoAddMarginResponse" -> Envelope("SetAutoAddMarginResult")
      [] m = "AddReduceMarginResult" ->
            Sch({"positionIdx", "riskId", "riskLimitValue", "symbol", "side", "size",
                 "avgPrice", "liqPrice", "bustPrice", "positionValue", "leverage",
                 "autoAddMargin", "positionStatus", "positionIM", "positionMM",
                 "unrealisedPnl", "cumRealisedPnl", "createdTime", "updatedTime"},
                {}, NoFields, NoFields)
      [] m = "AddReduceMarginResponse" -> Envelope("AddReduceMarginResult")
      [] m = "ClosedPnlItem" ->
            Sch({"symbol", "orderId", "side", "qty", "orderPrice", "orderType", "execType",
                 "closedSize", "cumEntryValue", "avgEntryPrice", "cumExitValue",
                 "avgExitPrice", "closedPnl", "fillCount", "leverage", "createdTime"},
                {}, NoFields, NoFields)
      [] m = "ClosedPnlResult" ->
            Sch({"nextPageCursor", "category", "list"}, {}, NoFields,
                [list |-> "ClosedPnlItem"])
      [] m = "GetClosedPnlResponse" -> Envelope("ClosedPnlResult")

\* a list of plain values (list[list[str]]) holds no model
Scalar == "scalar"

MarketSchema(m) ==
    CASE m = "TickerItem" ->
            Sch({"symbol", "bid1Price", "bid1Size", "ask1Price", "ask1Size", "lastPrice",
                 "prevPrice24h", "price24hPcnt"}, {}, NoFields, NoFields)
      [] m = "TickerResponse" ->
            Sch({"category", "list"}, {}, NoFields, [list |-> "TickerItem"])
      [] m = "OrderBookResponse" ->
            Sch({"s", "b", "a", "ts", "u", "seq", "cts"}, {}, NoFields,
                [b |-> Scalar, a |-> Scalar])
      [] m = "RecentTradeItem" ->
            Sch({"execId", "symbol", "price", "size", "side", "time", "isBlockTrade",
                 "isRPITrade"}, {"mP", "iP", "mIv", "iv"}, NoFields, NoFields)
      [] m = "RecentTradesResponse" ->
            Sch({"category", "list"}, {}, NoFields, [list |-> "RecentTradeItem"])
      [] m = "KlineResponse" ->
            Sch({"category", "symbol", "list"}, {}, NoFields, [list |-> Scalar])
      [] m = "LeverageFilter" ->
            Sch({"minLeverage", "maxLeverage", "leverageStep"}, {}, NoFields, NoFields)
      [] m = "PriceFilter" ->
            Sch({"minPrice", "maxPrice", "tickSize"}, {}, NoFields, NoFields)
      [] m = "LotSizeFilter" ->
            Sch({"maxOrderQty", "minOrderQty", "qtyStep"},
                {"postOnlyMaxOrderQty", "maxMktOrderQty", "minNotionalValue"},
                NoFields, NoFields)
      [] m = "RiskParameters" ->
            Sch({}, {"priceLimitRatioX", "priceLimitRatioY"}, NoFields, NoFields)
      [] m = "InstrumentInfoItem" ->
            Sch({"symbol", "contractType", "status", "baseCoin", "quoteCoin", "launchTime",
                 "deliveryTime", "priceScale", "leverageFilter", "priceFilter",
                 "lotSizeFilter", "settleCoin"},
                {"deliveryFeeRate", "unifiedMarginTrade", "fundingInterval", "copyTrading",
                 "upperFundingRate", "lowerFundingRate", "isPreListing", "preListingInfo",
                 "riskParameters", "optionType", "volScale"},
                [leverageFilter |-> "LeverageFilter", priceFilter |-> "PriceFilter",
                 lotSizeFilter |-> "LotSizeFilter", riskParameters |-> "RiskParameters"],
                NoFields)
      [] m = "InstrumentsInfoResponse" ->
            Sch({"category", "list"}, {"nextPageCursor"}, NoFields,
                [list |-> "InstrumentInfoItem"])
      [] m = "FundingRateHistoryItem" ->
            Sch({"symbol", "fundingRate", "fundingRateTimestamp"}, {}, NoFields, NoFields)
      [] m = "FundingRateHistoryResponse" ->
            Sch({"category", "list"}, {"nextPageCursor"}, NoFields,
                [list |-> "FundingRateHistoryItem"])
      [] m = "OpenInterestItem" ->
            Sch({"openInterest", "timestamp"}, {}, NoFields, NoFields)
      [] m = "OpenInterestResponse" ->
            Sch({"symbol", "category", "list"}, {"nextPageCursor"}, NoFields,
                [list |-> "OpenInterestItem"])
      [] m = "InsuranceItem" ->
            Sch({"coin", "symbols", "balance", "value"}, {}, NoFields, NoFields)
      [] m = "InsuranceResponse" ->
            Sch({"updatedTime", "list"}, {}, NoFields, [list |-> "InsuranceItem"])
      [] m = "RiskLimitItem" ->
            Sch({"id", "symbol", "riskLimitValue"}, {}, NoFields, NoFields)
      [] m = "RiskLimitResponse" ->
            Sch({"category", "list"}, {"nextPageCursor"}, NoFields,
                [list |-> "RiskLimitItem"])
      [] m = "LongShortRatioItem" ->
            Sch({"symbol", "buyRatio", "sellRatio", "timestamp"}, {}, NoFields, NoFields)
      [] m = "LongShortRatioResponse" ->
            Sch({"list"}, {"nextPageCursor"}, NoFields, [list |-> "LongShortRatioItem"])

PositionModels ==
    {"PositionInfoItem", "PositionInfoResult", "GetPositionInfoResponse",
     "SetLeverageResponse", "SwitchMarginModeResponse", "SwitchPositionModeResponse",
     "SetTradingStopResponse", "SetAutoAddMarginResponse", "AddReduceMarginResult",
     "AddReduceMarginResponse", "ClosedPnlItem", "ClosedPnlResult", "GetClosedPnlResponse"}
    \cup EmptyResultModels

Schema(m) ==
    IF m \in TradeModels THEN TradeSchema(m)
    ELSE IF m \in PositionModels THEN PositionSchema(m)
    ELSE MarketSchema(m)

\* The fields whose encoding (integer or string) the model varies, with the
\* type their model declares; the values of the other fields are taken as
\* they come.
FieldType(m, f) ==
    IF m = "TradeExecutionItem" /\ f = "seq" THEN "Optional[Union[str, int]]"
    ELSE IF m = "Order" /\ f = "positionIdx" THEN "Optional[int]"
    ELSE "unchecked"

\* the strings that int() parses, as far as the model supplies them
Decimals == {ToString(i) : i \in 0..9}

\* what validation gives for a value that does not fit its field
Invalid == [type |-> "invalid", repr |-> ""]

\* TradeExecutionItem.convert_seq_to_str, a validator that runs before the
\* type check: `if v is not None and isinstance(v, int): return str(v)`
convert_seq_to_str(v) == IF v # NoneV /\ v.type \in {"int", "bool"} THEN str(v) ELSE v

\* the value the validated model holds in field f for the input v: the
\* validator of the field, then pydantic's conversion to the declared type
\* (a decimal string becomes an int where an int is declared)
Coerce(m, f, v) ==
    CASE FieldType(m, f) = "Optional[Union[str, int]]" ->
            IF convert_seq_to_str(v).type \in {"NoneType", "str", "int"}
            THEN convert_seq_to_str(v) ELSE Invalid
      [] FieldType(m, f) = "Optional[int]" ->
            IF v.type \in {"NoneType", "int"} THEN v
            ELSE IF v.type = "str" /\ v.repr \in Decimals THEN IntV(v.repr)
            ELSE IF v.type = "bool" THEN IntV(IF v.repr = "True" THEN "1" ELSE "0")
            ELSE Invalid
      [] OTHER -> v

RECURSIVE Valid(_, _)
\* pydantic accepts the data d for model m: every required field is there,
\* every value fits its field, nested models and list items validate in
\* turn
Valid(m, d) ==
    IF m = Scalar THEN TRUE
    ELSE LET sc == Schema(m) IN
        /\ sc.req \subseteq DOMAIN d
        /\ \A f \in (DOMAIN d) \cap (sc.req \cup sc.opt) :
              FieldType(m, f) # "unchecked" => Coerce(m, f, d[f]) # Invalid
        /\ \A f \in (DOMAIN sc.sub) \cap (DOMAIN d) : Valid(sc.sub[f], d[f])
        /\ \A f \in (DOMAIN sc.list) \cap (DOMAIN d) :
              \A i \in 1..Len(d[f]) : Valid(sc.list[f], d[f][i])

RECURSIVE InstanceWithoutOptionals(_, _)
\* the optional fields left at their default
InstanceWithoutOptionals(m, d) ==
    IF m = Scalar THEN d
    ELSE LET sc == Schema(m) IN
        [f \in sc.req \cup sc.opt |->
            IF f \notin DOMAIN d \/ f \in sc.opt THEN NoneV
            ELSE IF f \in DOMAIN sc.sub THEN InstanceWithoutOptionals(sc.sub[f], d[f])
            ELSE IF f \in DOMAIN sc.list
                 THEN [i \in 1..Len(d[f]) |-> InstanceWithoutOptionals(sc.list[f], d[f][i])]
            ELSE d[f]]

RECURSIVE Instance(_, _)
\* the fields of the validated model: the declared fields only (undeclared
\* keys are ignored), an absent optional field holds its default None
Instance(m, d) ==
    IF m = Scalar THEN d
    ELSE LET sc == Schema(m) IN
        [f \in sc.req \cup sc.opt |->
            IF f \notin DOMAIN d THEN NoneV
            ELSE IF f \in DOMAIN sc.sub THEN Instance(sc.sub[f], d[f])
            ELSE IF f \in DOMAIN sc.list
                 THEN [i \in 1..Len(d[f]) |-> Instance(sc.list[f], d[f][i])]
            ELSE Coerce(m, f, d[f])]

\* the model built without validation, as model_construct() would
ConstructUnvalidated(m, kwargs) == Return([model |-> m, fields |-> Instance(m, kwargs)])

\* response_model(**kwargs)
Construct(m, kwargs) ==
    IF Valid(m, kwargs)
    THEN Return([model |-> m, fields |-> Instance(m, kwargs)])
    ELSE Raise("ValidationError", "Field required")

-----------------------------------------------------------------------------
(* The Trading Gate's canonical response (trade.py:39-65).                 *)

TRADING_DISABLED_RET_CODE == 40300
TRADING_DISABLED_RET_MSG == "Trading operations are disabled by server configuration."

\* a disabled response that fills the result with placeholders
disabled_response_with_placeholders(response_model) ==
    LET base == [retCode |-> TRADING_DISABLED_RET_CODE, retMsg |-> TRADING_DISABLED_RET_MSG]
        item == [orderId |-> StrV("N/A"), orderLinkId |-> StrV("N/A")]
        kwargs ==
            IF response_model \in {"PlaceOrderResponse", "AmendOrderResponse",
                                   "CancelOrderResponse"}
            THEN base @@ [result |-> item]
            ELSE IF response_model = "CancelAllOrdersResponse"
            THEN base @@ [result |-> [list |-> << item >>]]
            ELSE IF response_model \in {"BatchPlaceOrderResponse", "BatchAmendOrderResponse",
                                        "BatchCancelOrderResponse"}
            THEN base @@ [result |-> [list |-> << item @@ [category |-> StrV(""),
                                                           symbol |-> StrV("")] >>]]
            ELSE base
    IN Construct(response_model, kwargs)

_get_trading_disabled_response(response_model) ==
    LET base == [retCode |-> TRADING_DISABLED_RET_CODE, retMsg |-> TRADING_DISABLED_RET_MSG]
        kwargs ==
            IF response_model \in {"PlaceOrderResponse", "AmendOrderResponse",
                                   "CancelOrderResponse"}
            THEN base @@ [result |-> [orderId |-> StrV(""), orderLinkId |-> StrV("")]]
            ELSE IF response_model = "CancelAllOrdersResponse"
            THEN base @@ [result |-> [list |-> << >>]]
            ELSE IF response_model \in {"BatchPlaceOrderResponse", "BatchAmendOrderResponse",
                                        "BatchCancelOrderResponse"}
            THEN base @@ [result |-> [list |-> << >>]]
            ELSE base
    IN Construct(response_model, kwargs)

\* the adapters that start with `if not TRADING_ENABLED: return ...`
OrderMutatingTools == {"place_order", "amend_order", "cancel_order", "cancel_all_orders",
                       "batch_place_order", "batch_amend_order", "batch_cancel_order",
                       "place_trigger_order"}
PositionMutatingTools == {"set_leverage", "switch_cross_isolated_margin",
                          "switch_position_mode", "set_trading_stop", "set_auto_add_margin",
                          "modify_position_margin"}

\* a gate check left out of the position adapters
ConsultsGateOrdersOnly(tool) == tool \in OrderMutatingTools

\* a gate check added to the adapters that read balances
ConsultsGateAlsoBalances(tool) ==
    tool \in OrderMutatingTools \cup PositionMutatingTools
             \cup {"get_wallet_balance", "get_single_coin_balance", "get_account_info"}

ConsultsGate(tool) == tool \in OrderMutatingTools \cup PositionMutatingTools

\* the model each adapter validates its response against
ResponseModel(tool) ==
    CASE tool = "get_tickers" -> "TickerResponse"
      [] tool = "get_order_book" -> "OrderBookResponse"
      [] tool = "get_recent_trades" -> "RecentTradesResponse"
      [] tool \in {"get_kline", "get_mark_price_kline", "get_index_price_kline",
                   "get_premium_index_price_kline"} -> "KlineResponse"
      [] tool = "get_instruments_info" -> "InstrumentsInfoResponse"
      [] tool = "get_funding_rate_history" -> "FundingRateHistoryResponse"
      [] tool = "get_open_interest" -> "OpenInterestResponse"
      [] tool = "get_insurance" -> "InsuranceResponse"
      [] tool = "get_risk_limit" -> "RiskLimitResponse"
      [] tool = "get_long_short_ratio" -> "LongShortRatioResponse"
      [] tool \in {"place_order", "place_trigger_order"} -> "PlaceOrderResponse"
      [] tool = "amend_order" -> "AmendOrderResponse"
      [] tool = "cancel_order" -> "CancelOrderResponse"
      [] tool = "get_open_closed_orders" -> "OpenClosedOrdersResponse"
      [] tool = "cancel_all_orders" -> "CancelAllOrdersResponse"
      [] tool = "get_order_history" -> "OrderHistoryResponse"
      [] tool = "get_trade_history" -> "TradeHistoryResponse"
      [] tool = "batch_place_order" -> "BatchPlaceOrderResponse"
      [] tool = "batch_amend_order" -> "BatchAmendOrderResponse"
      [] tool = "batch_cancel_order" -> "BatchCancelOrderResponse"
      [] tool = "get_wallet_balance" -> "WalletBalanceResponse"
      [] tool = "get_single_coin_balance" -> "SingleCoinBalanceResponse"
      [] tool = "get_account_info" -> "AccountInfoResponse"
      [] tool = "get_position_info" -> "GetPositionInfoResponse"
      [] tool = "set_leverage" -> "SetLeverageResponse"
      [] tool = "switch_cross_isolated_margin" -> "SwitchMarginModeResponse"
      [] tool = "switch_position_mode" -> "SwitchPositionModeResponse"
      [] tool = "set_trading_stop" -> "SetTradingStopResponse"
      [] tool = "set_auto_add_margin" -> "SetAutoAddMarginResponse"
      [] tool = "modify_position_margin" -> "AddReduceMarginResponse"
      [] tool = "get_closed_pnl" -> "GetClosedPnlResponse"

\* the client method each adapter calls
ClientMethod(tool) ==
    CASE tool = "get_order_book" -> "get_orderbook"
      [] tool = "get_recent_trades" -> "get_public_trade_history"
      [] tool = "place_trigger_order" -> "place_order"
      [] tool = "get_open_closed_orders" -> "get_open_orders"
      [] tool = "get_trade_history" -> "get_executions"
      [] tool = "batch_place_order" -> "place_batch_order"
      [] tool = "batch_amend_order" -> "amend_batch_order"
      [] tool = "batch_cancel_order" -> "cancel_batch_order"
      [] tool = "get_single_coin_balance" -> "get_coin_balance"
      [] tool = "get_position_info" -> "get_positions"
      [] tool = "switch_cross_isolated_margin" -> "switch_margin_mode"
      [] tool = "modify_position_margin" -> "add_or_reduce_margin"
      [] OTHER -> tool

\* the module whose bybit_session the adapter uses
SessionOf(tool) ==
    IF tool \in MarketTools THEN "market"
    ELSE IF tool \in TradeTools THEN "trade"
    ELSE "position"

-----------------------------------------------------------------------------
(* place_order's checks and defaults (trade.py:120-136).                   *)

PlaceOrderValidation(a) ==
    IF a.orderType = StrV("Limit") /\ a.price = NoneV
    THEN "Price is required for Limit orders"
    ELSE IF a.triggerPrice # NoneV /\ a.triggerBy = NoneV
    THEN "triggerBy is required when triggerPrice is specified"
    ELSE IF a.triggerDirection # NoneV /\ a.triggerPrice = NoneV
    THEN "triggerPrice is required when triggerDirection is specified"
    ELSE "none"

\* the stop-loss default left out
PlaceOrderDefaultsTakeProfitOnly(a) ==
    [a EXCEPT !.tpTriggerBy = IF a.takeProfit # NoneV /\ @ = NoneV
                              THEN StrV("LastPrice") ELSE @]

PlaceOrderDefaults(a) ==
    [a EXCEPT !.tpTriggerBy = IF a.takeProfit # NoneV /\ @ = NoneV
                              THEN StrV("LastPrice") ELSE @,
              !.slTriggerBy = IF a.stopLoss # NoneV /\ @ = NoneV
                              THEN StrV("LastPrice") ELSE @]

-----------------------------------------------------------------------------
(* Parameter pruning: the keyword arguments of the outbound call.          *)

\* the filter on unset values left out
ForwardedUnconditionally(p, v) == TRUE

\* a value equal to the declared default pruned like an unset one
ForwardedUnlessDefault(p, v) == v # NoneV /\ (p.req \/ v # p.default)

Forwarded(p, v) ==
    CASE p.prune = "always" -> TRUE
      [] p.prune = "notNone" -> v # NoneV
      [] p.prune = "truthy" -> Truthy(v)

Conv(p, v) == IF p.conv = "str" THEN str(v) ELSE v

OutboundParams(sig, a) ==
    LET fw == {i \in 1..Len(sig) : Forwarded(sig[i], a[sig[i].name])}
    IN [o \in {sig[i].out : i \in fw} |->
            LET i == CHOOSE j \in fw : sig[j].out = o
            IN Conv(sig[i], a[sig[i].name])]

-----------------------------------------------------------------------------
(* The exchange client.  A call returns a mapping, or a (mapping, aux)     *)
(* pair, or raises.                                                        *)

PlainResp(body) == [type |-> "dict", dict |-> body]
PairResp(body) == [type |-> "tuple", items |-> <<body, "elapsed", "headers">>]

\* if isinstance(response, tuple): response = response[0]
Unwrap(response) == IF response.type = "tuple" THEN response.items[1] ELSE response.dict

RECURSIVE Sample(_)
\* a payload with every required field of model m
Sample(m) ==
    LET sc == Schema(m) IN
    [f \in sc.req |->
        IF f \in DOMAIN sc.sub THEN Sample(sc.sub[f])
        ELSE IF f \in DOMAIN sc.list
             THEN (IF sc.list[f] = Scalar THEN << >> ELSE << Sample(sc.list[f]) >>)
        ELSE StrV("v")]

\* the `result` of a successful response to the tool's endpoint
OkResult(tool) ==
    IF tool = "get_server_time"
    THEN [timeSecond |-> StrV("1700000000"), timeNano |-> StrV("1700000000000000000")]
    ELSE IF tool = "get_order_book"
    THEN [Sample("OrderBookResponse") EXCEPT
             !.s = StrV("x"),
             !.b = << <<StrV("100.5"), StrV("1")>>, <<StrV("100.4"), StrV("3")>> >>,
             !.a = << <<StrV("100.6"), StrV("2")>> >>]
    ELSE IF tool \in MarketTools THEN Sample(ResponseModel(tool))
    ELSE Sample(Schema(ResponseModel(tool)).sub.result)

\* the envelopes the client may return: a success with the fields the
\* models declare, a success with the exchange's further envelope fields,
\* an exchange error with an empty result, an envelope without a result
Bodies(tool) ==
    { [retCode |-> 0, retMsg |-> "OK", result |-> OkResult(tool)],
      [retCode |-> 0, retMsg |-> "OK", result |-> OkResult(tool),
       retExtInfo |-> EmptyDict, time |-> IntV("1672211918471")],
      [retCode |-> 10001, retMsg |-> "params error", result |-> EmptyDict],
      [retCode |-> 0, retMsg |-> "OK"] }

BatchTools == {"batch_place_order", "batch_amend_order", "batch_cancel_order"}

\* the i-th item of a batch result: the order's ids, and the error code and
\* message when the operation on it failed
BatchItem(i, failed) ==
    LET ids == [category |-> StrV("linear"), symbol |-> StrV("BTCUSDT"),
                orderId |-> StrV(ToString(i)), orderLinkId |-> StrV(ToString(100 + i))]
    IN IF failed
       THEN ids @@ [code |-> IntV("110001"), msg |-> StrV("order not exists")]
       ELSE ids

\* batch results of up to MaxItems items, each one succeeded or failed; and
\* a result whose failing item holds the error alone, without the ids
BatchBodies ==
    { [retCode |-> 0, retMsg |-> "OK",
       result |-> [list |-> [i \in 1..n |-> BatchItem(i, i \in failing)]]] :
          <<n, failing>> \in { <<k, F>> \in (0..MaxItems) \X (SUBSET (1..MaxItems)) :
                                  F \subseteq 1..k } }
    \cup { [retCode |-> 0, retMsg |-> "OK",
            result |-> [list |-> << BatchItem(1, FALSE),
                                    [code |-> IntV("110001"),
                                     msg |-> StrV("order not exists")] >>]] }

\* a successful response with one item that holds the field f as v
OneItemBody(tool, item, f, v) ==
    [retCode |-> 0, retMsg |-> "OK",
     result |-> [OkResult(tool) EXCEPT !.list = << Sample(item) @@ [g \in {f} |-> v] >>]]

\* the encodings of the fields the exchange sends now as an integer, now as
\* a string: the sequence number of an execution, the position index of an
\* order
EncodingBodies(tool) ==
    IF tool = "get_trade_history"
    THEN { OneItemBody(tool, "TradeExecutionItem", "seq", v) :
              v \in {IntV("7"), StrV("7")} }
    ELSE IF tool \in {"get_open_closed_orders", "get_order_history"}
    THEN { OneItemBody(tool, "Order", "positionIdx", v) :
              v \in {IntV("1"), StrV("1"), StrV("x")} }
    ELSE {}

\* the mapping d without the key f
Without(d, f) == [k \in DOMAIN d \ {f} |-> d[k]]

\* successful responses that leave out the list or the page cursor of the
\* result: a query that matched nothing, a last page
OmissionBodies(tool) ==
    { [retCode |-> 0, retMsg |-> "OK", result |-> Without(OkResult(tool), f)] :
         f \in {"list", "nextPageCursor"} \cap DOMAIN OkResult(tool) }

ClientResponses(tool) ==
    LET bodies == Bodies(tool) \cup (IF tool \in BatchTools THEN BatchBodies ELSE {})
                  \cup EncodingBodies(tool) \cup OmissionBodies(tool)
    IN { Raise("NetworkError", "connection failed") }
       \cup { Return(PlainResp(b)) : b \in bodies }
       \cup { Return(PairResp(b)) : b \in bodies }

-----------------------------------------------------------------------------
(* The endpoint adapters.                                                  *)

\* a second attempt after a fault, a second page after a cursor
ClientCallsRetrying(tool, params, resp) ==
    LET call == [session |-> SessionOf(tool), method |-> ClientMethod(tool),
                 params |-> params]
    IN IF resp.kind = "raise" THEN << call, call >> ELSE << call >>

\* the outbound calls an adapter makes once it is past its checks: one
\* call to its client method, whatever the response
ClientCalls(tool, params, resp) ==
    << [session |-> SessionOf(tool), method |-> ClientMethod(tool), params |-> params] >>

\* what the adapter does with the client's response
Validated(tool, resp) ==
    IF resp.kind = "raise" THEN resp
    ELSE IF tool = "get_server_time" THEN resp
    ELSE LET response == Unwrap(resp.value) IN
        IF tool \in MarketTools
        THEN (IF "result" \in DOMAIN response
              THEN Construct(ResponseModel(tool), response.result)
              ELSE Raise("KeyError", "'result'"))
        ELSE Construct(ResponseModel(tool), response)

NoCalls == << >>

\* adapter(**arguments) with the module's gate value `enabled` and the
\* client answering `resp`: what it returns or raises, and the calls made
Adapter(tool, arguments, resp, enabled) ==
    LET sig == Signature(tool)
        a == Bind(sig, arguments)
    IN  IF BindFault(sig, arguments) # "none"
        THEN [outcome |-> Raise("TypeError", BindFault(sig, arguments)), calls |-> NoCalls]
        ELSE IF ConsultsGate(tool) /\ ~enabled
        THEN [outcome |-> _get_trading_disabled_response(ResponseModel(tool)),
              calls |-> NoCalls]
        ELSE IF tool = "place_order" /\ PlaceOrderValidation(a) # "none"
        THEN [outcome |-> Raise("ValueError", PlaceOrderValidation(a)), calls |-> NoCalls]
        ELSE LET b == IF tool = "place_order" THEN PlaceOrderDefaults(a) ELSE a
                 params == OutboundParams(sig, b)
             IN [outcome |-> Validated(tool, resp),
                 calls |-> ClientCalls(tool, params, resp)]

-----------------------------------------------------------------------------
(* The tool dispatcher (main.py:1541-1701) and the listing (main.py:83).   *)

Text(parts, dump) == [type |-> "text", parts |-> parts, dump |-> dump]
NoDump == << >>

\* the f-string in front of the dump
Prefix(name, f) ==
    CASE name = "get_tickers" -> <<"Ticker data for ", f.category.repr, ":">>
      [] name = "get_order_book" -> <<"Order book for ", f.s.repr, ":">>
      [] name = "get_recent_trades" -> <<"Recent trades for ", f.category.repr, ":">>
      [] name = "get_kline" ->
            <<"Kline data for ", f.symbol.repr, " (", f.category.repr, "):">>
      [] name = "get_mark_price_kline" ->
            <<"Mark price kline data for ", f.symbol.repr, " (", f.category.repr, "):">>
      [] name = "get_index_price_kline" ->
            <<"Index price kline data for ", f.symbol.repr, " (", f.category.repr, "):">>
      [] name = "get_premium_index_price_kline" ->
            <<"Premium index price kline data for ", f.symbol.repr, " (",
              f.category.repr, "):">>
      [] name = "get_instruments_info" -> <<"Instruments info for ", f.category.repr, ":">>
      [] name = "get_funding_rate_history" ->
            <<"Funding rate history for ", f.category.repr, ":">>
      [] name = "get_open_interest" ->
            <<"Open interest data for ", f.symbol.repr, " (", f.category.repr, "):">>
      [] name = "get_insurance" ->
            <<"Insurance fund data (updated: ", f.updatedTime.repr, "):">>
      [] name = "get_risk_limit" -> <<"Risk limit data for ", f.category.repr, ":">>
      [] name = "get_long_short_ratio" -> <<"Long/short ratio data:">>
      [] name = "place_order" -> <<"Place Order Response:">>
      [] name = "amend_order" -> <<"Amend Order Response:">>
      [] name = "cancel_order" -> <<"Cancel Order Response:">>
      [] name = "get_open_closed_orders" -> <<"Open/Closed Orders:">>
      [] name = "cancel_all_orders" -> <<"Cancel All Orders Response:">>
      [] name = "get_order_history" -> <<"Order History:">>
      [] name = "get_trade_history" -> <<"Trade History:">>
      [] name = "batch_place_order" -> <<"Batch Place Order Response:">>
      [] name = "batch_amend_order" -> <<"Batch Amend Order Response:">>
      [] name = "batch_cancel_order" -> <<"Batch Cancel Order Response:">>
      [] name = "get_wallet_balance" -> <<"Wallet Balance:">>
      [] name = "get_single_coin_balance" -> <<"Single Coin Balance:">>
      [] name = "get_account_info" -> <<"Account Information:">>
      [] name = "get_position_info" -> <<"Position Information:">>
      [] name = "get_closed_pnl" -> <<"Closed P&L:">>
      [] name = "set_leverage" -> <<"Set Leverage Response:">>
      [] name = "switch_cross_isolated_margin" -> <<"Switch Margin Mode Response:">>
      [] name = "switch_position_mode" -> <<"Switch Position Mode Response:">>
      [] name = "set_trading_stop" -> <<"Set Trading Stop Response:">>
      [] name = "set_auto_add_margin" -> <<"Set Auto Add Margin Response:">>
      [] name = "modify_position_margin" -> <<"Modify Position Margin Response:">>
      [] name = "place_trigger_order" -> <<"Place Trigger Order Response:">>

\* the text built from what the adapter returned
Render(name, value) ==
    IF name = "get_server_time"
    THEN (IF value.type = "tuple"
          THEN Raise("AttributeError", "'tuple' object has no attribute 'get'")
          ELSE Return(Text(<<"Bybit Server Time: ",
                             IF "timeSecond" \in DOMAIN value.dict
                             THEN value.dict.timeSecond.repr ELSE "Unknown",
                             "Full Response: ">>,
                           value.dict)))
    ELSE Return(Text(Prefix(name, value.fields), value.fields))

\* a handler that catches the adapters' own ValueError only
CaughtValueErrorOnly(exc) == exc.type = "ValueError"

\* `except Exception as e`
Caught(exc) == exc.type \in ExceptionTypes

ErrorText(name, exc) == Text(<<"Error calling ", name, ": ", exc.msg>>, NoDump)

\* the gate value the adapter's module holds
GateOf(tool, tradeFlag, positionFlag) ==
    IF tool \in PositionTools THEN positionFlag ELSE tradeFlag

NoOutcome == [kind |-> "none"]

\* the characters of each name the model dispatches
Spelling ==
    [
      get_server_time |->
          <<"g", "e", "t", "_", "s", "e", "r", "v", "e", "r", "_", "t", "i", "m", "e">>,
      get_tickers |->
          <<"g", "e", "t", "_", "t", "i", "c", "k", "e", "r", "s">>,
      get_order_book |->
          <<"g", "e", "t", "_", "o", "r", "d", "e", "r", "_", "b", "o", "o", "k">>,
      get_recent_trades |->
          <<"g", "e", "t", "_", "r", "e", "c", "e", "n", "t", "_", "t", "r", "a", "d", "e", "s">>,
      get_kline |->
          <<"g", "e", "t", "_", "k", "l", "i", "n", "e">>,
      get_mark_price_kline |->
          <<"g", "e", "t", "_", "m", "a", "r", "k", "_", "p", "r", "i", "c", "e", "_", "k", "l", "i", "n", "e">>,
      get_index_price_kline |->
          <<"g", "e", "t", "_", "i", "n", "d", "e", "x", "_", "p", "r", "i", "c", "e", "_", "k", "l", "i", "n", "e">>,
      get_premium_index_price_kline |->
          <<"g", "e", "t", "_", "p", "r", "e", "m", "i", "u", "m", "_", "i", "n", "d", "e", "x", "_", "p", "r", "i", "c", "e", "_", "k", "l", "i", "n", "e">>,
      get_instruments_info |->
          <<"g", "e", "t", "_", "i", "n", "s", "t", "r", "u", "m", "e", "n", "t", "s", "_", "i", "n", "f", "o">>,
      get_funding_rate_history |->
          <<"g", "e", "t", "_", "f", "u", "n", "d", "i", "n", "g", "_", "r", "a", "t", "e", "_", "h", "i", "s", "t", "o", "r", "y">>,
      get_open_interest |->
          <<"g", "e", "t", "_", "o", "p", "e", "n", "_", "i", "n", "t", "e", "r", "e", "s", "t">>,
      get_insurance |->
          <<"g", "e", "t", "_", "i", "n", "s", "u", "r", "a", "n", "c", "e">>,
      get_risk_limit |->
          <<"g", "e", "t", "_", "r", "i", "s", "k", "_", "l", "i", "m", "i", "t">>,
      get_long_short_ratio |->
          <<"g", "e", "t", "_", "l", "o", "n", "g", "_", "s", "h", "o", "r", "t", "_", "r", "a", "t", "i", "o">>,
      place_order |->
          <<"p", "l", "a", "c", "e", "_", "o", "r", "d", "e", "r">>,
      amend_order |->
          <<"a", "m", "e", "n", "d", "_", "o", "r", "d", "e", "r">>,
      cancel_order |->
          <<"c", "a", "n", "c", "e", "l", "_", "o", "r", "d", "e", "r">>,
      get_open_closed_orders |->
          <<"g", "e", "t", "_", "o", "p", "e", "n", "_", "c", "l", "o", "s", "e", "d", "_", "o", "r", "d", "e", "r", "s">>,
      cancel_all_orders |->
          <<"c", "a", "n", "c", "e", "l", "_", "a", "l", "l", "_", "o", "r", "d", "e", "r", "s">>,
      get_order_history |->
          <<"g", "e", "t", "_", "o", "r", "d", "e", "r", "_", "h", "i", "s", "t", "o", "r", "y">>,
      get_trade_history |->
          <<"g", "e", "t", "_", "t", "r", "a", "d", "e", "_", "h", "i", "s", "t", "o", "r", "y">>,
      batch_place_order |->
          <<"b", "a", "t", "c", "h", "_", "p", "l", "a", "c", "e", "_", "o", "r", "d", "e", "r">>,
      batch_amend_order |->
          <<"b", "a", "t", "c", "h", "_", "a", "m", "e", "n", "d", "_", "o", "r", "d", "e", "r">>,
      batch_cancel_order |->
          <<"b", "a", "t", "c", "h", "_", "c", "a", "n", "c", "e", "l", "_", "o", "r", "d", "e", "r">>,
      get_wallet_balance |->
          <<"g", "e", "t", "_", "w", "a", "l", "l", "e", "t", "_", "b", "a", "l", "a", "n", "c", "e">>,
      get_single_coin_balance |->
          <<"g", "e", "t", "_", "s", "i", "n", "g", "l", "e", "_", "c", "o", "i", "n", "_", "b", "a", "l", "a", "n", "c", "e">>,
      get_account_info |->
          <<"g", "e", "t", "_", "a", "c", "c", "o", "u", "n", "t", "_", "i", "n", "f", "o">>,
      place_trigger_order |->
          <<"p", "l", "a", "c", "e", "_", "t", "r", "i", "g", "g", "e", "r", "_", "o", "r", "d", "e", "r">>,
      get_position_info |->
          <<"g", "e", "t", "_", "p", "o", "s", "i", "t", "i", "o", "n", "_", "i", "n", "f", "o">>,
      set_leverage |->
          <<"s", "e", "t", "_", "l", "e", "v", "e", "r", "a", "g", "e">>,
      switch_cross_isolated_margin |->
          <<"s", "w", "i", "t", "c", "h", "_", "c", "r", "o", "s", "s", "_", "i", "s", "o", "l", "a", "t", "e", "d", "_", "m", "a", "r", "g", "i", "n">>,
      switch_position_mode |->
          <<"s", "w", "i", "t", "c", "h", "_", "p", "o", "s", "i", "t", "i", "o", "n", "_", "m", "o", "d", "e">>,
      set_trading_stop |->
          <<"s", "e", "t", "_", "t", "r", "a", "d", "i", "n", "g", "_", "s", "t", "o", "p">>,
      set_auto_add_margin |->
          <<"s", "e", "t", "_", "a", "u", "t", "o", "_", "a", "d", "d", "_", "m", "a", "r", "g", "i", "n">>,
      modify_position_margin |->
          <<"m", "o", "d", "i", "f", "y", "_", "p", "o", "s", "i", "t", "i", "o", "n", "_", "m", "a", "r", "g", "i", "n">>,
      get_closed_pnl |->
          <<"g", "e", "t", "_", "c", "l", "o", "s", "e", "d", "_", "p", "n", "l">>,
      frobnicate |->
          <<"f", "r", "o", "b", "n", "i", "c", "a", "t", "e">>,
      GET_TICKERS |->
          <<"G", "E", "T", "_", "T", "I", "C", "K", "E", "R", "S">>,
      place_order2 |->
          <<"p", "l", "a", "c", "e", "_", "o", "r", "d", "e", "r", "2">>,
      xplace_order |->
          <<"x", "p", "l", "a", "c", "e", "_", "o", "r", "d", "e", "r">> ]

NoBinding == ""

\* names compared without regard to case
BindingIgnoringCase(name) ==
    IF name \in Tools THEN name
    ELSE LET l == lower(Spelling[name])
         IN IF \E t \in Tools : l = Spelling[t]
            THEN CHOOSE t \in Tools : l = Spelling[t]
            ELSE NoBinding

\* the if/elif chain of `name == "<tool>"` tests: the adapter bound to the
\* name, if any
Binding(name) == IF name \in Tools THEN name ELSE NoBinding

\* `except Exception as e: return [TextContent(... f"Error calling {name}: ...")]`
Recovered(name, body) ==
    IF body.kind = "raise" /\ Caught(body.exc) THEN Return(ErrorText(name, body.exc))
    ELSE body

\* the branch of the chain bound to `tool`, once its adapter has run
Dispatched(name, tool, run) ==
    [adapter |-> run.outcome, calls |-> run.calls,
     result |-> Recovered(name, IF run.outcome.kind = "raise" THEN run.outcome
                                ELSE Render(tool, run.outcome.value))]

\* the branch of the chain bound to `tool`: get_server_time() is called
\* without the arguments, every other adapter with **arguments
Branch(name, tool, arguments, resp, tradeFlag, positionFlag) ==
    Dispatched(name, tool,
               Adapter(tool, IF tool = "get_server_time" THEN EmptyDict ELSE arguments,
                       resp, GateOf(tool, tradeFlag, positionFlag)))

\* handle_call_tool(name, arguments): the adapter's outcome, the calls made
\* and the dispatcher's own outcome
handle_call_tool(name, arguments, resp, tradeFlag, positionFlag) ==
    IF Binding(name) = NoBinding
    THEN [adapter |-> NoOutcome, calls |-> NoCalls,
          result |-> Return(Text(<<"Unknown tool: ", name>>, NoDump))]
    ELSE Branch(name, Binding(name), arguments, resp, tradeFlag, positionFlag)

MarketToolList ==
    <<"get_server_time", "get_tickers", "get_order_book", "get_recent_trades", "get_kline",
      "get_mark_price_kline", "get_index_price_kline", "get_premium_index_price_kline",
      "get_instruments_info", "get_funding_rate_history", "get_open_interest",
      "get_insurance", "get_risk_limit", "get_long_short_ratio">>
ActiveTradeToolList ==
    <<"place_order", "amend_order", "cancel_order", "cancel_all_orders",
      "batch_place_order", "batch_amend_order", "batch_cancel_order",
      "place_trigger_order">>
TradeInfoToolList ==
    <<"get_open_closed_orders", "get_order_history", "get_trade_history",
      "get_wallet_balance", "get_single_coin_balance", "get_account_info">>
PositionToolList == <<"get_position_info", "get_closed_pnl">>
ActivePositionToolList ==
    <<"set_leverage", "switch_cross_isolated_margin", "switch_position_mode",
      "set_trading_stop", "set_auto_add_margin", "modify_position_margin">>

\* a listing that shows every tool whatever the flag
handle_list_tools_unconditional(mainFlag) ==
    MarketToolList \o ActiveTradeToolList \o TradeInfoToolList
    \o PositionToolList \o ActivePositionToolList

\* handle_list_tools(): the names of the tools listed
handle_list_tools(mainFlag) ==
    MarketToolList
    \o (IF mainFlag THEN ActiveTradeToolList ELSE << >>)
    \o TradeInfoToolList
    \o PositionToolList
    \o (IF mainFlag THEN ActivePositionToolList ELSE << >>)

\* inputSchema of each Tool(...) in handle_list_tools: the names under
\* "properties" and the names in "required"
InputSchema(tool) ==
    CASE tool = "get_server_time" ->
           [properties |-> {},
            required |-> {}]
      [] tool = "get_tickers" ->
           [properties |-> {"category", "symbol", "baseCoin", "expDate"},
            required |-> {}]
      [] tool = "get_order_book" ->
           [properties |-> {"category", "symbol", "limit"},
            required |-> {"symbol"}]
      [] tool = "get_recent_trades" ->
           [properties |-> {"category", "symbol", "baseCoin", "optionType", "limit"},
            required |-> {"symbol"}]
      [] tool = "get_kline" ->
           [properties |-> {"category", "symbol", "interval", "start", "end", "limit"},
            required |-> {"symbol"}]
      [] tool = "get_mark_price_kline" ->
           [properties |-> {"category", "symbol", "interval", "start", "end", "limit"},
            required |-> {"symbol"}]
      [] tool = "get_index_price_kline" ->
           [properties |-> {"category", "symbol", "interval", "start", "end", "limit"},
            required |-> {"symbol"}]
      [] tool = "get_premium_index_price_kline" ->
           [properties |-> {"category", "symbol", "interval", "start", "end", "limit"},
            required |-> {"symbol"}]
      [] tool = "get_instruments_info" ->
           [properties |-> {"category", "symbol", "baseCoin", "limit", "cursor"},
            required |-> {}]
      [] tool = "get_funding_rate_history" ->
           [properties |-> {"category", "symbol", "startTime", "endTime", "limit"},
            required |-> {"symbol"}]
      [] tool = "get_open_interest" ->
           [properties |-> {"category", "symbol", "interval", "startTime", "endTime",
                            "limit", "cursor"},
            required |-> {"symbol"}]
      [] tool = "get_insurance" ->
           [properties |-> {"coin"},
            required |-> {}]
      [] tool = "get_risk_limit" ->
           [properties |-> {"category", "symbol"},
            required |-> {}]
      [] tool = "get_long_short_ratio" ->
           [properties |-> {"category", "symbol", "interval", "startTime", "endTime",
                            "limit"},
            required |-> {"symbol"}]
      [] tool = "place_order" ->
           [properties |-> {"category", "symbol", "side", "orderType", "qty", "price",
                            "isLeverage", "orderLinkId", "timeInForce"},
            required |-> {"category", "symbol", "side", "orderType", "qty"}]
      [] tool = "amend_order" ->
           [properties |-> {"category", "symbol", "orderId", "orderLinkId", "qty",
                            "price"},
            required |-> {"category", "symbol"}]
      [] tool = "cancel_order" ->
           [properties |-> {"category", "symbol", "orderId", "orderLinkId"},
            required |-> {"category", "symbol"}]
      [] tool = "cancel_all_orders" ->
           [properties |-> {"category", "symbol", "baseCoin", "settleCoin",
                            "orderFilter"},
            required |-> {"category"}]
      [] tool = "batch_place_order" ->
           [properties |-> {"category", "request"},
            required |-> {"category", "request"}]
      [] tool = "batch_amend_order" ->
           [properties |-> {"category", "request"},
            required |-> {"category", "request"}]
      [] tool = "batch_cancel_order" ->
           [properties |-> {"category", "request"},
            required |-> {"category", "request"}]
      [] tool = "place_trigger_order" ->
           [properties |-> {"category", "symbol", "side", "orderType", "qty",
                            "triggerPrice", "triggerDirection", "triggerBy", "price",
                            "orderFilter", "timeInForce", "reduceOnly", "closeOnTrigger",
                            "positionIdx", "orderLinkId"},
            required |-> {"category", "symbol", "side", "orderType", "qty",
                          "triggerPrice", "triggerDirection"}]
      [] tool = "get_open_closed_orders" ->
           [properties |-> {"category", "symbol", "baseCoin", "settleCoin", "orderId",
                            "orderLinkId", "openOnly", "orderFilter", "limit", "cursor"},
            required |-> {"category"}]
      [] tool = "get_order_history" ->
           [properties |-> {"category", "symbol", "baseCoin", "orderId", "orderLinkId",
                            "orderStatus", "orderFilter", "startTime", "endTime",
                            "limit", "cursor"},
            required |-> {"category"}]
      [] tool = "get_trade_history" ->
           [properties |-> {"category", "symbol", "baseCoin", "orderId", "orderLinkId",
                            "execType", "startTime", "endTime", "limit", "cursor"},
            required |-> {"category"}]
      [] tool = "get_wallet_balance" ->
           [properties |-> {"accountType", "coin"},
            required |-> {"accountType"}]
      [] tool = "get_single_coin_balance" ->
           [properties |-> {"accountType", "coin", "memberId", "toAccountType",
                            "toMemberId", "withBonus"},
            required |-> {"accountType", "coin"}]
      [] tool = "get_account_info" ->
           [properties |-> {},
            required |-> {}]
      [] tool = "get_position_info" ->
           [properties |-> {"category", "symbol", "baseCoin", "settleCoin", "limit",
                            "cursor"},
            required |-> {"category"}]
      [] tool = "get_closed_pnl" ->
           [properties |-> {"category", "symbol", "startTime", "endTime", "limit",
                            "cursor"},
            required |-> {"category"}]
      [] tool = "set_leverage" ->
           [properties |-> {"category", "symbol", "buyLeverage", "sellLeverage"},
            required |-> {"category", "symbol", "buyLeverage", "sellLeverage"}]
      [] tool = "switch_cross_isolated_margin" ->
           [properties |-> {"category", "symbol", "tradeMode", "buyLeverage",
                            "sellLeverage"},
            required |-> {"category", "symbol", "tradeMode", "buyLeverage",
                          "sellLeverage"}]
      [] tool = "switch_position_mode" ->
           [properties |-> {"category", "symbol", "coin", "mode"},
            required |-> {"category", "mode"}]
      [] tool = "set_trading_stop" ->
           [properties |-> {"category", "symbol", "tpslMode", "positionIdx",
                            "takeProfit", "stopLoss", "trailingStop", "tpTriggerBy",
                            "slTriggerBy", "activePrice", "tpSize", "slSize",
                            "tpLimitPrice", "slLimitPrice", "tpOrderType", "slOrderType"},
            required |-> {"category", "symbol", "tpslMode", "positionIdx"}]
      [] tool = "set_auto_add_margin" ->
           [properties |-> {"category", "symbol", "autoAddMargin", "positionIdx"},
            required |-> {"category", "symbol", "autoAddMargin"}]
      [] tool = "modify_position_margin" ->
           [properties |-> {"category", "symbol", "margin", "positionIdx"},
            required |-> {"category", "symbol", "margin"}]

-----------------------------------------------------------------------------
(* Configuration: os.getenv("BYBIT_TRADING_ENABLED", "false").lower() in   *)
(* ("true", "1").                                                         *)

Unset == [set |-> FALSE, value |-> << >>]
SetTo(s) == [set |-> TRUE, value |-> s]

\* os.getenv(name, default)
getenv(e, default) == IF e.set THEN e.value ELSE default

\* a reading that compares the value as written
TradingEnabledFromAsWritten(e) ==
    getenv(e, <<"f", "a", "l", "s", "e">>) \in {<<"t", "r", "u", "e">>, <<"1">>}

TradingEnabledFrom(e) ==
    lower(getenv(e, <<"f", "a", "l", "s", "e">>)) \in {<<"t", "r", "u", "e">>, <<"1">>}

\* an importing module that reads the configuration again, its own way
ImportedFlagReadAgain(e, tradeFlag) ==
    lower(getenv(e, <<"f", "a", "l", "s", "e">>)) = <<"t", "r", "u", "e">>

\* `from .trade import TRADING_ENABLED` in position.py and main.py: the
\* importing module binds the value trade.py computed
ImportedFlag(e, tradeFlag) == tradeFlag

\* USE_TESTNET = os.getenv("BYBIT_TESTNET", "false").lower() in ("true", "1")
UseTestnetFrom(e) ==
    lower(getenv(e, <<"f", "a", "l", "s", "e">>)) \in {<<"t", "r", "u", "e">>, <<"1">>}

\* HTTP(testnet=..., api_key=..., api_secret=...)
HTTP(testnet) == [testnet |-> testnet]

\* market.bybit_session: HTTP(testnet=False, ...)
MarketSession(e) == HTTP(FALSE)

\* trade.bybit_session: HTTP(testnet=USE_TESTNET, ...)
TradeSession(e) == HTTP(UseTestnetFrom(e))

\* position.bybit_session: HTTP(testnet=USE_TESTNET, ...)
PositionSession(e) == HTTP(UseTestnetFrom(e))

NoSessions == [m \in {} |-> HTTP(FALSE)]

\* the sessions of the three modules once all are loaded
Sessions(e) == [market |-> MarketSession(e), trade |-> TradeSession(e),
                position |-> PositionSession(e)]

\* the values the environment may hold for a flag at startup: unset, empty,
\* "true" in every mix of cases, "1", and values that are neither
EnvValues ==
    { Unset, SetTo(<< >>), SetTo(<<"1">>), SetTo(<<"0">>), SetTo(<<"y", "e", "s">>),
      SetTo(<<"o", "n">>), SetTo(<<"f", "a", "l", "s", "e">>),
      SetTo(<<"F", "a", "l", "s", "e">>), SetTo(<<"t">>), SetTo(<<"1", "1">>),
      SetTo(<<" ", "t", "r", "u", "e">>), SetTo(<<"t", "r", "u", "e", " ">>),
      SetTo(<<"e", "n", "a", "b", "l", "e", "d">>) }
    \cup { SetTo(<<a, b, c, d>>) : <<a, b, c, d>> \in {"t", "T"} \X {"r", "R"}
                                                       \X {"u", "U"} \X {"e", "E"} }

\* the values of BYBIT_TESTNET the model draws
TestnetEnvValues == { Unset, SetTo(<<"t", "r", "u", "e">>), SetTo(<<"1">>),
                      SetTo(<<"f", "a", "l", "s", "e">>) }

\* the configurations the served model starts from: nothing set, and
\* trading enabled on the testnet
ServedConfigurations ==
    { <<Unset, Unset>>, <<SetTo(<<"1">>), SetTo(<<"t", "r", "u", "e">>)>> }

-----------------------------------------------------------------------------
(* The requests the model draws.                                           *)

\* names bound to no adapter: an unrelated one, a bound name in another
\* case, a bound name with a suffix, a bound name with a prefix
UnknownNames == {"frobnicate", "GET_TICKERS", "place_order2", "xplace_order"}
ToolNames == Tools \cup UnknownNames

\* the value a caller supplies for a parameter; alt picks the second one
ArgValue(p, alt) ==
    CASE p.name = "orderType" -> IF alt THEN StrV("Limit") ELSE StrV("Market")
      [] p.type = "str" -> IF alt THEN StrV("") ELSE StrV("x")
      [] p.type = "int" -> IF alt THEN IntV("0") ELSE IntV("1")
      [] p.type = "bool" -> IF alt THEN BoolV(FALSE) ELSE BoolV(TRUE)
      [] p.type = "list" -> IF alt THEN ListV("[]") ELSE ListV("[{...}]")

RECURSIVE SubsetsUpTo(_, _)
\* the subsets of S with at most k elements
SubsetsUpTo(S, k) ==
    IF k = 0 THEN { {} }
    ELSE LET smaller == SubsetsUpTo(S, k - 1)
         IN smaller \cup { T \cup {x} : <<T, x>> \in smaller \X S }

\* the value a caller supplies for a property of the advertised schema
SchemaArgValue(sig, n) ==
    IF n \in Names(sig) THEN ArgValue(ParamOf(sig, n), FALSE) ELSE StrV("x")

\* argument mappings: all required parameters and at most maxOpt optional
\* ones, at most one of them empty, zero or false; or one required
\* parameter missing; or a key no adapter accepts; or what the advertised
\* schema asks for: its required properties alone, or those and the required
\* parameters with one property that only the schema declares
ArgChoicesUpTo(name, maxOpt) ==
    IF name \notin Tools THEN { EmptyDict }
    ELSE LET sig == Signature(name)
             req == RequiredNames(sig)
             opt == Names(sig) \ req
             sch == InputSchema(name)
             picks == SubsetsUpTo(opt, maxOpt)
             args(S, A) == [n \in S |-> ArgValue(ParamOf(sig, n), n \in A)]
             alts(S) == {A \in SUBSET (S \cup (req \cap {"orderType"})) :
                            Cardinality(A \cap S) <= 1}
         IN UNION { { args(req \cup S, A) : A \in alts(S) } : S \in picks }
            \cup { args(req \ {m}, {}) : m \in req }
            \cup { args(req, {}) @@ [bogus |-> StrV("x")] }
            \cup { [n \in sch.required |-> SchemaArgValue(sig, n)] }
            \cup { [n \in req \cup sch.required \cup {p} |-> SchemaArgValue(sig, n)] :
                      p \in sch.properties \ Names(sig) }

ArgChoices(name) == ArgChoicesUpTo(name, MaxOpt)

-----------------------------------------------------------------------------
(* The state machine.                                                      *)

\* a call to the client that the event loop is to wait for while it runs
\* other handlers
LoopFreeWhileCallAwaited(p, fl) == p = "idle" /\ Len(fl) < 2

\* the event loop can start a handler: no result waits to be written and no
\* handler is inside its client call.  handle_call_tool holds no await and
\* the adapters call the client synchronously, so the one thread of the
\* event loop is held until the call returns.
LoopFree(p, fl) == p = "idle" /\ fl = << >>

NoRequest == [op |-> "none", name |-> "", arguments |-> EmptyDict, response |-> NoOutcome,
              adapter |-> NoOutcome, calls |-> NoCalls, result |-> NoOutcome]

\* the state once main.py and the modules it imports are loaded
Init ==
    /\ \E c \in ServedConfigurations : env = c[1] /\ envTestnet = c[2]
    /\ bybit_session = Sessions(envTestnet)
    /\ inflight = << >>
    /\ TRADING_ENABLED = TradingEnabledFrom(env)
    /\ position_TRADING_ENABLED = ImportedFlag(env, TradingEnabledFrom(env))
    /\ main_TRADING_ENABLED = ImportedFlag(env, TradingEnabledFrom(env))
    /\ netCalls = 0
    /\ pc = "idle"
    /\ last = NoRequest

\* one tools/call request, handled to completion
HandleCallTool ==
    /\ LoopFree(pc, inflight)
    /\ \E name \in ToolNames :
         \E arguments \in ArgChoices(name) :
           \E resp \in (IF Binding(name) # NoBinding
                        THEN ClientResponses(Binding(name)) ELSE {NoOutcome}) :
             \E h \in {handle_call_tool(name, arguments, resp,
                                        TRADING_ENABLED, position_TRADING_ENABLED)} :
                /\ netCalls + Len(h.calls) <= MaxCalls
                /\ netCalls' = netCalls + Len(h.calls)
                /\ last' = [op |-> "call_tool", name |-> name, arguments |-> arguments,
                            response |-> IF h.calls = NoCalls THEN NoOutcome ELSE resp,
                            adapter |-> h.adapter, calls |-> h.calls, result |-> h.result]
    /\ pc' = "done"
    /\ UNCHANGED <<env, gates, sessions, inflight>>

\* one tools/list request
HandleListTools ==
    /\ LoopFree(pc, inflight)
    /\ last' = [NoRequest EXCEPT !.op = "list_tools",
                                 !.result = Return(handle_list_tools(main_TRADING_ENABLED))]
    /\ pc' = "done"
    /\ UNCHANGED <<env, gates, sessions, inflight, netCalls>>

\* the server writes the result to the peer and waits for the next request;
\* nothing of the invocation is retained
SendResult ==
    /\ pc = "done"
    /\ pc' = "idle"
    /\ last' = NoRequest
    /\ UNCHANGED <<env, gates, sessions, inflight, netCalls>>

Next == HandleCallTool \/ HandleListTools \/ SendResult

Spec == Init /\ [][Next]_vars

-----------------------------------------------------------------------------
(* The same server with a handler that calls the client shown at the call: *)
(* from the moment the request is sent to the exchange until the answer    *)
(* is back the invocation is in `inflight`.                                *)

\* stands for the answer that has not come yet
NotAnswered == Raise("NetworkError", "connection failed")

\* a tools/call request whose handler reaches its client call: the gate
\* check and the parameter checks are passed, the request goes out
BeginCallTool ==
    /\ LoopFree(pc, inflight)
    /\ \E name \in Tools :
         \E arguments \in ArgChoices(name) :
           \E h \in {handle_call_tool(name, arguments, NotAnswered,
                                      TRADING_ENABLED, position_TRADING_ENABLED)} :
              /\ h.calls # NoCalls
              /\ netCalls + Len(h.calls) <= MaxCalls
              /\ netCalls' = netCalls + Len(h.calls)
              /\ inflight' = Append(inflight, [name |-> name, arguments |-> arguments,
                                               calls |-> h.calls])
    /\ UNCHANGED <<env, gates, sessions, pc, last>>

\* the client call returns or raises; the handler validates, renders and
\* returns
CompleteCallTool ==
    /\ pc = "idle"
    /\ \E i \in 1..Len(inflight) :
         \E resp \in ClientResponses(inflight[i].name) :
           \E h \in {handle_call_tool(inflight[i].name, inflight[i].arguments, resp,
                                      TRADING_ENABLED, position_TRADING_ENABLED)} :
              /\ last' = [op |-> "call_tool", name |-> inflight[i].name,
                          arguments |-> inflight[i].arguments, response |-> resp,
                          adapter |-> h.adapter, calls |-> inflight[i].calls,
                          result |-> h.result]
              /\ inflight' = [j \in 1..(Len(inflight) - 1) |->
                                 IF j < i THEN inflight[j] ELSE inflight[j + 1]]
    /\ pc' = "done"
    /\ UNCHANGED <<env, gates, sessions, netCalls>>

\* a tools/call request whose handler returns without a client call: the
\* name is unknown, the arguments do not bind, the gate is closed or a
\* parameter check fails
HandleWithoutCall ==
    /\ LoopFree(pc, inflight)
    /\ \E name \in ToolNames :
         \E arguments \in ArgChoices(name) :
           \E h \in {handle_call_tool(name, arguments, NotAnswered,
                                      TRADING_ENABLED, position_TRADING_ENABLED)} :
              /\ h.calls = NoCalls
              /\ last' = [op |-> "call_tool", name |-> name, arguments |-> arguments,
                          response |-> NoOutcome, adapter |-> h.adapter,
                          calls |-> NoCalls, result |-> h.result]
    /\ pc' = "done"
    /\ UNCHANGED <<env, gates, sessions, inflight, netCalls>>

NextSteps ==
    BeginCallTool \/ CompleteCallTool \/ HandleWithoutCall \/ HandleListTools \/ SendResult

SpecSteps == Init /\ [][NextSteps]_vars

-----------------------------------------------------------------------------
(* Startup: python loads main.py, which imports market.py, then            *)
(* position.py (which imports trade.py first), then binds the flag of      *)
(* trade.py.  Before a module is loaded its names are bound to nothing:    *)
(* the flag variables hold FALSE until then and are read by no one.        *)

InitStartup ==
    /\ env \in EnvValues
    /\ envTestnet \in TestnetEnvValues
    /\ bybit_session = NoSessions
    /\ inflight = << >>
    /\ TRADING_ENABLED = FALSE
    /\ position_TRADING_ENABLED = FALSE
    /\ main_TRADING_ENABLED = FALSE
    /\ netCalls = 0
    /\ pc = "start"
    /\ last = NoRequest

\* main.py:26 `from .market import ...`
LoadMarket ==
    /\ pc = "start"
    /\ bybit_session' = bybit_session @@ [market |-> MarketSession(envTestnet)]
    /\ pc' = "market"
    /\ UNCHANGED <<env, envTestnet, gates, inflight, netCalls, last>>

\* position.py:19 `from .trade import ...`, reached from main.py:42
LoadTrade ==
    /\ pc = "market"
    /\ TRADING_ENABLED' = TradingEnabledFrom(env)
    /\ bybit_session' = bybit_session @@ [trade |-> TradeSession(envTestnet)]
    /\ pc' = "trade"
    /\ UNCHANGED <<env, envTestnet, position_TRADING_ENABLED, main_TRADING_ENABLED,
                   inflight, netCalls, last>>

\* the rest of position.py
LoadPosition ==
    /\ pc = "trade"
    /\ position_TRADING_ENABLED' = ImportedFlag(env, TRADING_ENABLED)
    /\ bybit_session' = bybit_session @@ [position |-> PositionSession(envTestnet)]
    /\ pc' = "position"
    /\ UNCHANGED <<env, envTestnet, TRADING_ENABLED, main_TRADING_ENABLED,
                   inflight, netCalls, last>>

\* main.py:54 `from .trade import TRADING_ENABLED, ...`; the server starts
LoadMain ==
    /\ pc = "position"
    /\ main_TRADING_ENABLED' = ImportedFlag(env, TRADING_ENABLED)
    /\ pc' = "idle"
    /\ UNCHANGED <<env, sessions, TRADING_ENABLED, position_TRADING_ENABLED,
                   inflight, netCalls, last>>

NextStartup ==
    LoadMarket \/ LoadTrade \/ LoadPosition \/ LoadMain \/ HandleListTools \/ SendResult

SpecStartup == InitStartup /\ [][NextStartup]_vars

-----------------------------------------------------------------------------
(* Properties.                                                             *)

\* the 14 adapters that place, change or cancel orders or change positions
MutatingAdapters ==
    {"place_order", "amend_order", "cancel_order", "cancel_all_orders",
     "batch_place_order", "batch_amend_order", "batch_cancel_order",
     "place_trigger_order", "set_leverage", "switch_cross_isolated_margin",
     "switch_position_mode", "set_trading_stop", "set_auto_add_margin",
     "modify_position_margin"}

SingleOrderAdapters == {"place_order", "amend_order", "cancel_order", "place_trigger_order"}
OrderListAdapters == {"cancel_all_orders", "batch_place_order", "batch_amend_order",
                      "batch_cancel_order"}

\* a tools/call request has just been handled
Called == pc = "done" /\ last.op = "call_tool"

\* the request r reached the body of an adapter: the name is bound and the
\* arguments fit the adapter's signature
EnteredAdapter(r) ==
    /\ r.op = "call_tool"
    /\ r.name \in Tools
    /\ BindFault(Signature(r.name),
                 IF r.name = "get_server_time" THEN EmptyDict ELSE r.arguments) = "none"

Supplied(r, n) == n \in DOMAIN r.arguments

LimitWithoutPrice(r) == r.arguments.orderType = StrV("Limit") /\ ~Supplied(r, "price")
TriggerPriceWithoutTriggerBy(r) == Supplied(r, "triggerPrice") /\ ~Supplied(r, "triggerBy")
TriggerDirectionWithoutTriggerPrice(r) ==
    Supplied(r, "triggerDirection") /\ ~Supplied(r, "triggerPrice")

\* C1: with the gate closed, an invocation of any of the 14 mutating
\* adapters, after any earlier invocations, makes no outbound call: the
\* call counter does not move.
C1_ClosedGateNoNetworkCall ==
    [][(/\ ~TRADING_ENABLED
        /\ last'.op = "call_tool"
        /\ last'.name \in MutatingAdapters)
       => (netCalls' = netCalls /\ last'.calls = << >>)]_vars

C1_Witness ==
    /\ Called
    /\ ~TRADING_ENABLED
    /\ last.name = "set_leverage"
    /\ EnteredAdapter(last)
    /\ netCalls = 1
    /\ last.calls = << >>

\* C2: with the gate closed, every mutating adapter returns (does not
\* raise) an instance of its own Response Model with status code 40300 and
\* the trading-disabled message.
C2_ClosedGateReturnsDisabledModel ==
    (Called /\ ~TRADING_ENABLED /\ last.name \in MutatingAdapters /\ EnteredAdapter(last))
    => /\ last.adapter.kind = "return"
       /\ last.adapter.value.model = ResponseModel(last.name)
       /\ last.adapter.value.fields.retCode = 40300
       /\ last.adapter.value.fields.retMsg
            = "Trading operations are disabled by server configuration."

\* C3: a trading-disabled response that an adapter returns has a result
\* that is present and not null; the single-order shapes hold empty
\* orderId and orderLinkId, the list shapes hold the empty list.
C3_DisabledResultPresentAndEmpty ==
    (/\ Called /\ ~TRADING_ENABLED /\ last.name \in MutatingAdapters
     /\ last.adapter.kind = "return")
    => LET f == last.adapter.value.fields IN
       /\ "result" \in DOMAIN f
       /\ f.result # NoneV
       /\ last.name \in SingleOrderAdapters
            => (f.result.orderId = StrV("") /\ f.result.orderLinkId = StrV(""))
       /\ last.name \in OrderListAdapters => f.result.list = << >>

C3_Witness ==
    /\ Called /\ ~TRADING_ENABLED
    /\ last.name = "batch_cancel_order"
    /\ last.adapter.kind = "return"
    /\ last.adapter.value.fields.retCode = 40300

\* C4: every invocation of the dispatcher returns a text result, whatever
\* the name, the arguments, the gate and the adapter's outcome; a fault of
\* the adapter comes back as the text "Error calling <name>: <fault>".
C4_DispatcherAlwaysReturnsText ==
    Called =>
       /\ last.result.kind = "return"
       /\ last.result.value.type = "text"
       /\ last.adapter.kind = "raise"
            => last.result.value.parts
                 = <<"Error calling ", last.name, ": ", last.adapter.exc.msg>>

C4_Witness ==
    /\ Called
    /\ last.adapter.kind = "raise"
    /\ last.adapter.exc.type = "NetworkError"
    /\ last.result.kind = "return"

\* C5: the gate is a boolean that no listing and no invocation changes, and
\* the trade adapters, the position adapters and the listing hold the same
\* value of it throughout.
C5_GateFixedAndShared ==
    /\ [](/\ TRADING_ENABLED \in BOOLEAN
          /\ position_TRADING_ENABLED = TRADING_ENABLED
          /\ main_TRADING_ENABLED = TRADING_ENABLED)
    /\ [][/\ TRADING_ENABLED' = TRADING_ENABLED
          /\ position_TRADING_ENABLED' = position_TRADING_ENABLED
          /\ main_TRADING_ENABLED' = main_TRADING_ENABLED]_vars

C5_Witness ==
    /\ pc = "done"
    /\ last.op = "list_tools"
    /\ netCalls = MaxCalls
    /\ TRADING_ENABLED
    /\ env = SetTo(<<"1">>)
    /\ Len(last.result.value) = Cardinality(Tools)

\* C6: place_order with orderType "Limit" and no price raises ValueError
\* "Price is required for Limit orders" and makes no outbound call.
C6_LimitWithoutPriceRaises ==
    (Called /\ last.name = "place_order" /\ EnteredAdapter(last) /\ LimitWithoutPrice(last))
    => /\ last.adapter = Raise("ValueError", "Price is required for Limit orders")
       /\ last.calls = << >>

\* C7: place_order with a triggerPrice and no triggerBy (and no earlier
\* check failing) raises ValueError "triggerBy is required when
\* triggerPrice is specified" and makes no outbound call.
C7_TriggerPriceWithoutTriggerByRaises ==
    (/\ Called /\ last.name = "place_order" /\ EnteredAdapter(last)
     /\ ~LimitWithoutPrice(last)
     /\ TriggerPriceWithoutTriggerBy(last))
    => /\ last.adapter
            = Raise("ValueError", "triggerBy is required when triggerPrice is specified")
       /\ last.calls = << >>

\* C8: place_order with a triggerDirection and no triggerPrice (and no
\* earlier check failing) raises ValueError "triggerPrice is required when
\* triggerDirection is specified" and makes no outbound call.
C8_TriggerDirectionWithoutTriggerPriceRaises ==
    (/\ Called /\ last.name = "place_order" /\ EnteredAdapter(last)
     /\ ~LimitWithoutPrice(last)
     /\ TriggerDirectionWithoutTriggerPrice(last))
    => /\ last.adapter
            = Raise("ValueError",
                    "triggerPrice is required when triggerDirection is specified")
       /\ last.calls = << >>

\* the trigger source `by` the outbound call carries for the price `price`
TriggerSourceRule(r, price, by) ==
    LET p == r.calls[1].params IN
    IF Supplied(r, by) THEN by \in DOMAIN p /\ p[by] = r.arguments[by]
    ELSE IF Supplied(r, price) THEN by \in DOMAIN p /\ p[by] = StrV("LastPrice")
    ELSE by \notin DOMAIN p

\* C9: with the gate open, a place_order that passes the three checks makes
\* its outbound call, and that call carries tpTriggerBy (slTriggerBy) as the
\* caller gave it, or "LastPrice" when only takeProfit (stopLoss) was given,
\* or not at all when neither was given.
C9_DefaultTriggerSources ==
    (/\ Called /\ TRADING_ENABLED /\ last.name = "place_order" /\ EnteredAdapter(last)
     /\ ~LimitWithoutPrice(last)
     /\ ~TriggerPriceWithoutTriggerBy(last)
     /\ ~TriggerDirectionWithoutTriggerPrice(last))
    => /\ Len(last.calls) = 1
       /\ last.calls[1].method = "place_order"
       /\ TriggerSourceRule(last, "takeProfit", "tpTriggerBy")
       /\ TriggerSourceRule(last, "stopLoss", "slTriggerBy")
       /\ (last.response.kind = "return" /\ Unwrap(last.response.value) = 
              [retCode |-> 0, retMsg |-> "OK",
               result |-> [orderId |-> StrV("v"), orderLinkId |-> StrV("v")]])
            => last.adapter.kind = "return"

C9_Witness ==
    /\ Called /\ TRADING_ENABLED /\ last.name = "place_order"
    /\ Supplied(last, "takeProfit") /\ ~Supplied(last, "tpTriggerBy")
    /\ Len(last.calls) = 1
    /\ last.calls[1].params.tpTriggerBy = StrV("LastPrice")
    /\ last.adapter.kind = "return"

\* C10: an adapter invocation that passes the gate check and the parameter
\* checks makes exactly one outbound call, whether the client returns or
\* faults and whether or not the response carries a page cursor.
C10_ExactlyOneOutboundCall ==
    [][(/\ EnteredAdapter(last')
        /\ (last'.name \in MutatingAdapters => TRADING_ENABLED)
        /\ last'.name = "place_order"
             => ~(\/ LimitWithoutPrice(last')
                  \/ TriggerPriceWithoutTriggerBy(last')
                  \/ TriggerDirectionWithoutTriggerPrice(last')))
       => (netCalls' = netCalls + 1 /\ Len(last'.calls) = 1)]_vars

C10_Witness ==
    /\ Called /\ last.name = "get_closed_pnl"
    /\ Len(last.calls) = 1
    /\ last.response.kind = "raise"
    /\ netCalls = MaxCalls

\* the keywords under which the caller's own arguments reach the client
SuppliedKeywords(r) ==
    LET sig == Signature(r.name)
    IN IF r.name = "get_server_time" THEN {}
       ELSE {ParamOf(sig, n).out : n \in DOMAIN r.arguments}

DeclaredDefault(r, k, v) ==
    LET sig == Signature(r.name)
    IN \E i \in 1..Len(sig) :
          /\ sig[i].out = k
          /\ sig[i].name \notin DOMAIN r.arguments
          /\ sig[i].default # NoneV
          /\ v = sig[i].default

\* the keyword k is a trigger source place_order defaulted to "LastPrice"
DefaultedTriggerSource(r, k, v) ==
    /\ r.name = "place_order"
    /\ v = StrV("LastPrice")
    /\ \/ k = "tpTriggerBy" /\ Supplied(r, "takeProfit")
       \/ k = "slTriggerBy" /\ Supplied(r, "stopLoss")

EmptyValues == {StrV(""), IntV("0"), BoolV(FALSE)}

\* C12: an optional parameter the caller supplies as an empty string, zero
\* or false is in the outbound call, with the value supplied (or its str()
\* where the adapter converts).
C12_OnlyTheUnsetSentinelIsPruned ==
    (Called /\ EnteredAdapter(last) /\ last.name # "get_server_time")
    => \A i \in 1..Len(last.calls) :
         \A n \in DOMAIN last.arguments :
            LET p == ParamOf(Signature(last.name), n)
                sent == last.calls[i].params
            IN (~p.req /\ last.arguments[n] \in EmptyValues)
               => /\ p.out \in DOMAIN sent
                  /\ sent[p.out] \in {last.arguments[n], str(last.arguments[n])}

\* the text holds the string s: as one of its parts or as the status
\* message of the dumped model
TextHas(text, s) ==
    \/ \E i \in 1..Len(text.parts) : text.parts[i] = s
    \/ /\ "retMsg" \in DOMAIN text.dump
       /\ text.dump.retMsg = s

\* C13: dispatching a mutating tool with the gate closed makes no outbound
\* call and returns a text that holds the trading-disabled message.
C13_ClosedGateDispatchReturnsDisabledText ==
    (Called /\ ~TRADING_ENABLED /\ last.name \in MutatingAdapters /\ EnteredAdapter(last))
    => /\ last.calls = << >>
       /\ last.result.kind = "return"
       /\ last.result.value.type = "text"
       /\ TextHas(last.result.value,
                  "Trading operations are disabled by server configuration.")

\* the name differs from a bound name only in the case of its letters
CaseVariant(name) ==
    /\ name \notin Tools
    /\ \E t \in Tools : lower(Spelling[name]) = Spelling[t]

\* the name is a bound name with characters in front of it or after it
AffixVariant(name) ==
    /\ name \notin Tools
    /\ \E t \in Tools :
          LET n == Spelling[name]
              b == Spelling[t]
          IN /\ Len(n) > Len(b)
             /\ \/ SubSeq(n, 1, Len(b)) = b
                \/ SubSeq(n, Len(n) - Len(b) + 1, Len(n)) = b

\* C14: a name that equals no bound name, be it unrelated, a bound name in
\* another case or a bound name with a prefix or a suffix, gets the text
\* "Unknown tool: <name>"; the dispatcher returns normally, no adapter runs
\* and no outbound call is made.
C14_UnknownToolByExactMatch ==
    (Called /\ last.name \notin Tools)
    => /\ last.result = Return(Text(<<"Unknown tool: ", last.name>>, NoDump))
       /\ last.adapter = NoOutcome
       /\ last.calls = << >>

C14_Witness ==
    /\ Called
    /\ CaseVariant(last.name)
    /\ last.result.kind = "return"
    /\ last.result.value.parts = <<"Unknown tool: ", "GET_TICKERS">>
    /\ AffixVariant("place_order2")
    /\ AffixVariant("xplace_order")
    /\ netCalls = MaxCalls

\* the adapters of trade.py and position.py, whose Response Model is an
\* envelope with a status code
EnvelopeAdapters == TradeTools \cup PositionTools

\* the request made one outbound call and the client returned a mapping
ClientReturned(r) == Len(r.calls) = 1 /\ r.response.kind = "return"

\* C15: when the client returns an envelope with a nonzero status code, the
\* adapter raises; a model an adapter returns carries a nonzero code only
\* when it is the gate's 40300; and a returned model with status code 0 has
\* a result of its declared shape.
C15_NonzeroStatusRaises ==
    (Called /\ EnteredAdapter(last) /\ last.name \in EnvelopeAdapters)
    => /\ (ClientReturned(last) /\ Unwrap(last.response.value).retCode # 0)
            => last.adapter.kind = "raise"
       /\ last.adapter.kind = "return"
            => LET f == last.adapter.value.fields IN
               /\ f.retCode \in {0, TRADING_DISABLED_RET_CODE}
               /\ f.retCode = 0
                    => /\ f.result # NoneV
                       /\ Schema(Schema(ResponseModel(last.name)).sub.result).req
                             \subseteq DOMAIN f.result

\* C15 (amended): an adapter of trade.py or position.py does not look at
\* the status code.  It raises a validation fault when the envelope the
\* client returned does not validate against its Response Model (the result
\* is absent or lacks a required field) and otherwise returns the model with
\* the envelope's code and message, zero or not; every model returned for a
\* client response has a result of its declared shape.
C15_StatusCodeNotInspected ==
    (/\ Called /\ EnteredAdapter(last) /\ last.name \in EnvelopeAdapters
     /\ ClientReturned(last))
    => LET body == Unwrap(last.response.value)
           m == ResponseModel(last.name)
       IN IF Valid(m, body)
          THEN /\ last.adapter.kind = "return"
               /\ last.adapter.value.model = m
               /\ LET f == last.adapter.value.fields IN
                  /\ f.retCode = body.retCode
                  /\ f.retMsg = body.retMsg
                  /\ f.result # NoneV
                  /\ Schema(Schema(m).sub.result).req \subseteq DOMAIN f.result
          ELSE /\ last.adapter.kind = "raise"
               /\ last.adapter.exc.type = "ValidationError"

C15_Witness ==
    /\ Called /\ last.name = "set_leverage" /\ ClientReturned(last)
    /\ Unwrap(last.response.value).retCode = 10001
    /\ last.adapter.kind = "return"
    /\ last.adapter.value.fields.retCode = 10001

\* C16: a client response delivered as a (mapping, auxiliary) pair gives
\* the same adapter outcome, the same calls and the same dispatcher result
\* as the same mapping delivered plain.
C16_PairEqualsPlain ==
    (/\ Called /\ EnteredAdapter(last) /\ ClientReturned(last)
     /\ last.response.value.type = "tuple")
    => LET plain == handle_call_tool(last.name, last.arguments,
                                     Return(PlainResp(last.response.value.items[1])),
                                     TRADING_ENABLED, position_TRADING_ENABLED)
       IN /\ last.adapter = plain.adapter
          /\ last.calls = plain.calls
          /\ last.result = plain.result

RECURSIVE Kept(_, _, _)
\* every field of the data d is in the model's fields f with the same
\* value, in d itself and in each nested model and list item
Kept(m, d, f) ==
    LET sc == Schema(m) IN
    \A k \in DOMAIN d :
       /\ k \in DOMAIN f
       /\ IF k \in DOMAIN sc.sub THEN Kept(sc.sub[k], d[k], f[k])
          ELSE IF k \in DOMAIN sc.list /\ sc.list[k] # Scalar
          THEN /\ Len(f[k]) = Len(d[k])
               /\ \A i \in 1..Len(d[k]) : Kept(sc.list[k], d[k][i], f[k][i])
          ELSE f[k] = d[k]

\* C17: a mutating adapter, with the gate open and a client response of
\* status code 0 that it accepts, returns a model that holds every field of
\* the response with the same value, at the envelope level and below.
C17_NoFieldDropped ==
    (/\ Called /\ TRADING_ENABLED /\ last.name \in MutatingAdapters
     /\ EnteredAdapter(last) /\ ClientReturned(last)
     /\ Unwrap(last.response.value).retCode = 0
     /\ last.adapter.kind = "return")
    => Kept(ResponseModel(last.name), Unwrap(last.response.value),
            last.adapter.value.fields)

\* the list of the batch result the client returned for request r
BatchList(r) == Unwrap(r.response.value).result.list

Succeeded(r, m) ==
    /\ ClientReturned(r)
    /\ Unwrap(r.response.value).retCode = 0
    /\ "result" \in DOMAIN Unwrap(r.response.value)
    /\ Valid(m, Unwrap(r.response.value).result)

\* C19: get_order_book dispatched with a symbol and nothing else makes, in
\* either gate state, exactly one outbound call, to the order-book endpoint,
\* with that symbol and category "linear"; when the client answers with an
\* order book, the text returned names the book's symbol (the symbol asked,
\* when the exchange echoes it) and dumps its bids and asks.
C19_OrderBookScenario ==
    (Called /\ last.name = "get_order_book" /\ DOMAIN last.arguments = {"symbol"})
    => /\ Len(last.calls) = 1
       /\ last.calls[1].method = "get_orderbook"
       /\ {"symbol", "category"} \subseteq DOMAIN last.calls[1].params
       /\ last.calls[1].params.symbol = last.arguments.symbol
       /\ last.calls[1].params.category = StrV("linear")
       /\ Succeeded(last, "OrderBookResponse")
            => LET book == Unwrap(last.response.value).result
                   text == last.result.value
               IN /\ last.result.kind = "return"
                  /\ text.type = "text"
                  /\ text.parts = <<"Order book for ", book.s.repr, ":">>
                  /\ book.s = last.arguments.symbol
                       => \E i \in 1..Len(text.parts) :
                             text.parts[i] = last.arguments.symbol.repr
                  /\ text.dump.s = book.s
                  /\ text.dump.b = book.b
                  /\ text.dump.a = book.a

C19_Witness ==
    /\ Called /\ ~TRADING_ENABLED
    /\ last.name = "get_order_book" /\ DOMAIN last.arguments = {"symbol"}
    /\ Succeeded(last, "OrderBookResponse")
    /\ last.response.value.type = "tuple"
    /\ last.result.value.parts[2] = last.arguments.symbol.repr
    /\ Len(last.result.value.dump.b) = 2
    /\ Len(last.result.value.dump.a) = 1

\* the adapters that only read
ReadOnlyAdapters ==
    MarketTools \cup {"get_open_closed_orders", "get_order_history", "get_trade_history",
                      "get_wallet_balance", "get_single_coin_balance", "get_account_info",
                      "get_position_info", "get_closed_pnl"}

\* the client's answer to request r, or a fault if r made no call
AnswerOf(r) ==
    IF r.calls = NoCalls THEN Raise("NetworkError", "connection failed") ELSE r.response

\* C20: for a read-only adapter the calls made, the adapter's outcome and
\* the dispatcher's result are what they would have been, for the same
\* arguments and the same client response, with the gate in the other
\* state.
C20_GateDoesNotAffectReadOnly ==
    (Called /\ last.name \in ReadOnlyAdapters)
    => LET other == handle_call_tool(last.name, last.arguments, AnswerOf(last),
                                     ~TRADING_ENABLED, ~position_TRADING_ENABLED)
       IN /\ other.calls = last.calls
          /\ other.adapter = last.adapter
          /\ other.result = last.result

C20_Witness ==
    /\ Called /\ ~TRADING_ENABLED /\ ~position_TRADING_ENABLED
    /\ last.name = "get_wallet_balance"
    /\ Len(last.calls) = 1
    /\ last.calls[1].session = "trade"
    /\ last.adapter.kind = "return"
    /\ last.adapter.value.model = "WalletBalanceResponse"

\* C21: with the gate closed, an invocation of a mutating adapter, whatever
\* invocations came before it, yields a trading-disabled response, and it is
\* the response the same invocation yields when made again: the outcome of
\* the adapter and the text of the dispatcher are the same both times.
C21_ClosedGateSameDisabledResponseTwice ==
    (Called /\ ~TRADING_ENABLED /\ last.name \in MutatingAdapters /\ EnteredAdapter(last))
    => LET again == handle_call_tool(last.name, last.arguments,
                                     Raise("NetworkError", "connection failed"),
                                     TRADING_ENABLED, position_TRADING_ENABLED)
       IN /\ again.adapter = last.adapter
          /\ again.result = last.result
          /\ again.calls = << >>
          /\ last.adapter.kind = "return"
          /\ again.adapter.kind = "return"
          /\ last.adapter.value.fields.retCode = TRADING_DISABLED_RET_CODE

\* C22: invocations never overlap.  At most one outbound call is on the
\* wire at any time; while the call of an invocation is on the wire the only
\* step taken is the completion of that same invocation (no other handler
\* starts, lists or completes); and what a completed invocation returns is
\* what its own name, arguments and answer give, nothing of another
\* invocation.
C22_InvocationsNeverOverlap ==
    /\ [](Len(inflight) <= 1)
    /\ [][inflight # << >>
            => /\ inflight' = << >>
               /\ last'.op = "call_tool"
               /\ last'.name = inflight[1].name
               /\ last'.arguments = inflight[1].arguments
               /\ last'.calls = inflight[1].calls]_vars
    /\ [][(last' # last /\ last'.op = "call_tool")
            => [adapter |-> last'.adapter, calls |-> last'.calls, result |-> last'.result]
               = handle_call_tool(last'.name, last'.arguments, AnswerOf(last'),
                                  TRADING_ENABLED, position_TRADING_ENABLED)]_vars

C22_Witness ==
    /\ pc = "idle"
    /\ Len(inflight) = 1
    /\ inflight[1].name = "place_order"
    /\ Len(inflight[1].calls) = 1
    /\ netCalls = MaxCalls
    /\ TRADING_ENABLED

\* C23: for every tool, an argument mapping with a key that the bound
\* adapter does not accept reaches the adapter and faults there: the adapter
\* raises TypeError, no outbound call is made and the dispatcher returns the
\* text "Error calling <name>: ...".
C23_UnacceptedArgumentFaults ==
    (/\ Called /\ last.name \in Tools
     /\ ~(DOMAIN last.arguments \subseteq Names(Signature(last.name))))
    => /\ last.adapter = Raise("TypeError", "got an unexpected keyword argument")
       /\ last.calls = << >>
       /\ last.result = Return(ErrorText(last.name, last.adapter.exc))

\* the model the adapter returned holds in field f of list item i what the
\* claim asks for the value the response holds there
NormalizedToString(sent, got, f) ==
    IF f \notin DOMAIN sent THEN got[f] = NoneV
    ELSE IF sent[f].type = "int" THEN got[f] = StrV(sent[f].repr)
    ELSE IF sent[f].type = "str" THEN got[f] = sent[f]
    ELSE TRUE

\* the field of the list items of the tool's response that the exchange
\* sends as an integer or as a string
TwoEncodingField(tool) == IF tool = "get_trade_history" THEN "seq" ELSE "positionIdx"

\* C24: in the model an adapter returns, the sequence number of every
\* execution and the position index of every order is a string: the decimal
\* string of an integer the response held, the string the response held, or
\* absent when the response held none.
C24_TwoEncodingFieldsNormalizedToString ==
    (/\ Called /\ EnteredAdapter(last) /\ ClientReturned(last)
     /\ last.name \in {"get_trade_history", "get_open_closed_orders", "get_order_history"}
     /\ last.adapter.kind = "return")
    => LET sent == Unwrap(last.response.value).result.list
           got == last.adapter.value.fields.result.list
       IN /\ Len(got) = Len(sent)
          /\ \A i \in 1..Len(sent) :
                NormalizedToString(sent[i], got[i], TwoEncodingField(last.name))

\* the model that validates the `result` of the tool's response
ResultModel(tool) ==
    IF tool \in MarketTools THEN ResponseModel(tool)
    ELSE Schema(ResponseModel(tool)).sub.result

\* the fields of the result in the model the adapter returned
ResultFields(r) ==
    IF r.name \in MarketTools THEN r.adapter.value.fields
    ELSE r.adapter.value.fields.result

\* the client answered request r with status 0 and a result that lacks the
\* field f its model declares, and is complete otherwise
ResultLacks(r, f, filler) ==
    /\ EnteredAdapter(r) /\ r.name # "get_server_time" /\ ClientReturned(r)
    /\ LET body == Unwrap(r.response.value) IN
       /\ body.retCode = 0
       /\ "result" \in DOMAIN body
       /\ f \in Schema(ResultModel(r.name)).req \cup Schema(ResultModel(r.name)).opt
       /\ f \notin DOMAIN body.result
       /\ Valid(ResultModel(r.name), body.result @@ [g \in {f} |-> filler])

\* C25: a response whose result lacks its list validates: the adapter
\* returns its model, and the list of the model is empty.
C25_AbsentListIsEmptyList ==
    (Called /\ ResultLacks(last, "list", << >>))
    => /\ last.adapter.kind = "return"
       /\ ResultFields(last).list = << >>

\* C26: a response of a paginated endpoint whose result lacks the page
\* cursor validates: the adapter returns its model, and the cursor of the
\* model is absent.
C26_AbsentCursorValidates ==
    (Called /\ ResultLacks(last, "nextPageCursor", StrV("c")))
    => /\ last.adapter.kind = "return"
       /\ ResultFields(last).nextPageCursor = NoneV

\* the names a listing shows
Listed(listing) == {listing[i] : i \in 1..Len(listing)}

\* C27: a tools/list answer names a tool exactly when the tool's adapter does
\* not consult the gate or the gate is open: with the gate closed the tools
\* left out are exactly the 14 whose adapters consult the gate, every other
\* dispatchable tool is listed in both gate states, no name is listed twice,
\* and every listed name is bound in the dispatcher.
C27_ListedIffReadOnlyOrOpen ==
    last.op = "list_tools" =>
        /\ last.result.kind = "return"
        /\ \A t \in Tools :
              t \in Listed(last.result.value) <=> (~ConsultsGate(t) \/ TRADING_ENABLED)
        /\ (~TRADING_ENABLED =>
              /\ Tools \ Listed(last.result.value) = MutatingAdapters
              /\ Cardinality(Tools \ Listed(last.result.value)) = 14)
        /\ \A n \in Listed(last.result.value) : Binding(n) # NoBinding
        /\ Cardinality(Listed(last.result.value)) = Len(last.result.value)

\* a listing answered with the gate closed: 22 names, place_order not among them
C27_Witness ==
    /\ last.op = "list_tools"
    /\ ~TRADING_ENABLED
    /\ Len(last.result.value) = 22
    /\ "place_order" \notin Listed(last.result.value)
    /\ "get_wallet_balance" \in Listed(last.result.value)

\* the configuration values that spell "true" in some mix of cases, or "1"
SpellsTrueOrOne(e) ==
    /\ e.set
    /\ \/ e.value = <<"1">>
       \/ /\ Len(e.value) = 4
          /\ e.value[1] \in {"t", "T"}
          /\ e.value[2] \in {"r", "R"}
          /\ e.value[3] \in {"u", "U"}
          /\ e.value[4] \in {"e", "E"}

\* C28: once trade.py is loaded the gate is open exactly when
\* BYBIT_TRADING_ENABLED is set to "1" or to "true" in any mix of cases; unset,
\* empty, "yes", "on", "0" and "false" leave it closed, and so does every other
\* value; the modules that import the flag hold the same value once loaded.
C28_GateOpenIffTrueOrOne ==
    /\ pc \notin {"start", "market"} =>
          /\ TRADING_ENABLED <=> SpellsTrueOrOne(env)
          /\ env \in {Unset, SetTo(<< >>), SetTo(<<"y", "e", "s">>), SetTo(<<"o", "n">>),
                      SetTo(<<"0">>), SetTo(<<"f", "a", "l", "s", "e">>)}
                => ~TRADING_ENABLED
    /\ pc \notin {"start", "market", "trade"} =>
          (position_TRADING_ENABLED <=> SpellsTrueOrOne(env))
    /\ pc \in {"idle", "done"} => (main_TRADING_ENABLED <=> SpellsTrueOrOne(env))

\* the server started with BYBIT_TRADING_ENABLED=True: the gate is open
C28_Witness ==
    /\ pc = "idle"
    /\ env = SetTo(<<"T", "r", "u", "e">>)
    /\ TRADING_ENABLED
    /\ main_TRADING_ENABLED

\* an argument mapping that satisfies a schema: every required property is
\* present and every key is a declared property
Satisfies(arguments, schema) ==
    /\ schema.required \subseteq DOMAIN arguments
    /\ DOMAIN arguments \subseteq schema.properties

\* C29: for every listed tool that is called, the advertised schema agrees
\* with the adapter's signature: every declared property is an accepted
\* parameter, every required parameter is in the schema's required list, and
\* arguments that satisfy the schema bind without a TypeError.
C29_SchemaAgreesWithAdapter ==
    (/\ last.op = "call_tool"
     /\ last.name \in Listed(handle_list_tools(main_TRADING_ENABLED)))
    => /\ InputSchema(last.name).properties \subseteq Names(Signature(last.name))
       /\ RequiredNames(Signature(last.name)) \subseteq InputSchema(last.name).required
       /\ Satisfies(last.arguments, InputSchema(last.name))
             => ~(last.adapter.kind = "raise" /\ last.adapter.exc.type = "TypeError")

\* C30: once the three modules are loaded, the market-data, order/trade and
\* position sessions are built with one and the same testnet flag, the one
\* read from BYBIT_TESTNET: market data is never read from the production
\* host while orders go to the testnet host.
C30_SessionsShareTestnetFlag ==
    pc \in {"position", "idle", "done"} =>
        /\ bybit_session.market.testnet = bybit_session.trade.testnet
        /\ bybit_session.trade.testnet = bybit_session.position.testnet
        /\ bybit_session.market.testnet = UseTestnetFrom(envTestnet)

====
